---- MODULE Spec2Model ----
(***************************************************************************)
(* The SQLite storage engine of LunaTV (SqliteStorage): the tables of the  *)
(* store, the repository operations over them, the retry wrapper and the   *)
(* admin-config aggregator.                                                *)
(*                                                                         *)
(* A table is the set of its rows.  A text value that the code builds or   *)
(* takes apart (a JSON text, a composite key) is a sequence of one-letter  *)
(* strings; a value the code only stores and compares (a username, a       *)
(* password, a record key) is a string.                                    *)
(***************************************************************************)
EXTENDS Integers, Sequences, FiniteSets, TLC

VARIABLES
    users,           \* table users
    play_records,    \* table play_records
    favorites,       \* table favorites
    skip_configs,    \* table skip_configs
    search_history,  \* table search_history
    admin_config,    \* table admin_config
    user_groups,     \* table user_groups
    api_sources,     \* table api_sources
    live_sources,    \* table live_sources
    categories,      \* table categories
    calls,           \* the withRetry calls in flight
    nextId,          \* next AUTOINCREMENT id of search_history
    now,             \* the clock, in seconds (strftime('%s','now'))
    nops,            \* number of steps taken so far
    last,            \* the last step: a storage call and its outcome
    dirExists,       \* fs.existsSync(dir)
    fileExists,      \* fs.existsSync(dbPath)
    global_db,       \* global[globalKey]: 0 for undefined, or the handle
    opened,          \* number of new Database(dbPath) of the running process
    storages,        \* this.db of the SqliteStorage objects of the process
    steps,           \* what the last call of getSqliteDatabase did, in order
    seeded           \* number of owner rows inserted by initializeTables

adminTables ==
    <<admin_config, user_groups, api_sources, live_sources, categories>>

\* the store file and directory, and the connection of the running process
connection ==
    <<dirExists, fileExists, global_db, opened, storages, steps, seeded>>

vars == <<users, play_records, favorites, skip_configs, search_history,
          adminTables, calls, nextId, now, nops, last, connection>>

----------------------------------------------------------------------------
(* Bounds *)

\* steps of one run: storage calls and seconds passing
MaxOps == 4

\* largest number a document holds
MaxNum == 10

\* concurrent setFavorite calls
NumCalls == 3

\* keywords added one after the other in the 25-keyword scenario
NumKeywords == 25

\* seconds that can pass during that scenario
SeqSeconds == 1

\* new keywords the user adds before the history workload turns free
HistFill == 19

\* steps of one run of the history workload
HistMaxOps == 24

\* steps of one run of processes opening the store
OpenMaxOps == 6

\* seconds that can pass during the history workload
HistSeconds == 1

----------------------------------------------------------------------------
(* Program constants and input domains *)

SEARCH_HISTORY_LIMIT == 20

ADMIN_USERNAME == "admin"

ADMIN_PASSWORD == "p1"

UserNames == {ADMIN_USERNAME, "u1"}

Passwords == {"p1", "p2"}

RecordKeys == {"k1"}

Keywords == {1, 2}

\* absent or empty keyword argument (falsy in `if (keyword)`)
NoKeyword == 0

\* the characters of the texts
QUOTE == "\""

BACKSLASH == "\\"

Digits == <<"0", "1", "2", "3", "4", "5", "6", "7", "8", "9">>

\* SQL NULL (and undefined) in a text column
NULL == <<"NULL">>

\* JavaScript null, the result of a get that finds no row
null == [absent |-> TRUE]

\* JavaScript undefined where a string is expected
UNDEFINED == "<undefined>"

\* an optional object or array: absent (undefined), or present
Absent == <<>>

Present(x) == <<x>>

\* (source, episode id) pairs of skip configs
SkipPairs ==
    {<<(<<"a">>), (<<"c">>)>>,
     <<(<<"a">>), (<<"b", "+", "c">>)>>,
     <<(<<"a", "+", "b">>), (<<"c">>)>>}

\* the documents callers store: an object with a string and a number
Docs == {[t |-> <<"x">>, n |-> 7], [t |-> <<"x", QUOTE>>, n |-> MaxNum]}

----------------------------------------------------------------------------
(* JSON.stringify and JSON.parse on the documents *)

\* a string's characters with quote and backslash escaped
RECURSIVE Escape(_)
Escape(s) ==
    IF s = <<>> THEN <<>>
    ELSE LET c == Head(s)
         IN  (IF c = QUOTE \/ c = BACKSLASH THEN <<BACKSLASH, c>> ELSE <<c>>)
             \o Escape(Tail(s))

\* decimal digits of a natural number
RECURSIVE NumText(_)
NumText(n) ==
    IF n < 10 THEN <<Digits[n + 1]>>
    ELSE NumText(n \div 10) \o <<Digits[(n % 10) + 1]>>

JSONstringify(d) ==
    <<"{", QUOTE, "t", QUOTE, ":", QUOTE>> \o Escape(d.t)
    \o <<QUOTE, ",", QUOTE, "n", QUOTE, ":">> \o NumText(d.n) \o <<"}">>

\* reads string characters from position i up to the closing quote
RECURSIVE ParseString(_, _, _)
ParseString(text, i, acc) ==
    IF i > Len(text) THEN [ok |-> FALSE, val |-> acc, next |-> i]
    ELSE IF text[i] = QUOTE THEN [ok |-> TRUE, val |-> acc, next |-> i + 1]
    ELSE IF text[i] = BACKSLASH
         THEN IF i + 1 > Len(text)
              THEN [ok |-> FALSE, val |-> acc, next |-> i]
              ELSE ParseString(text, i + 2, Append(acc, text[i + 1]))
    ELSE ParseString(text, i + 1, Append(acc, text[i]))

DigitValue(c) == CHOOSE v \in 0..9 : Digits[v + 1] = c

IsDigit(c) == \E v \in 0..9 : Digits[v + 1] = c

\* reads digits from position i
RECURSIVE ParseNumber(_, _, _, _)
ParseNumber(text, i, acc, seen) ==
    IF i <= Len(text) /\ IsDigit(text[i])
    THEN ParseNumber(text, i + 1, 10 * acc + DigitValue(text[i]), TRUE)
    ELSE [ok |-> seen, val |-> acc, next |-> i]

HasAt(text, i, lit) ==
    /\ i + Len(lit) - 1 <= Len(text)
    /\ \A j \in 1..Len(lit) : text[i + j - 1] = lit[j]

SyntaxError == [error |-> "SyntaxError"]

JSONparse(text) ==
    LET open == <<"{", QUOTE, "t", QUOTE, ":", QUOTE>>
        mid  == <<",", QUOTE, "n", QUOTE, ":">>
    IN  IF ~HasAt(text, 1, open) THEN SyntaxError
        ELSE LET s == ParseString(text, Len(open) + 1, <<>>)
             IN  IF ~s.ok \/ ~HasAt(text, s.next, mid) THEN SyntaxError
                 ELSE LET m == ParseNumber(text, s.next + Len(mid), 0, FALSE)
                      IN  IF m.ok /\ m.next = Len(text) /\ text[m.next] = "}"
                          THEN [t |-> s.val, n |-> m.val]
                          ELSE SyntaxError

----------------------------------------------------------------------------
(* The schema *)

foreign_keys_off == FALSE

\* PRAGMA foreign_keys = ON, set on every open of the connection
foreign_keys == TRUE

ForeignKeyOk_unchecked(u) == TRUE

\* FOREIGN KEY (username) REFERENCES users(username)
ForeignKeyOk(u) == ~foreign_keys \/ \E r \in users : r.username = u

\* ON DELETE CASCADE: the rows of a child table a DELETE of user u leaves
Cascade(table, u) ==
    IF foreign_keys THEN {r \in table : r.username # u} ELSE table

InsertOrIgnore(table, row) ==
    IF \E r \in table : r.username = row.username /\ r.key = row.key
    THEN table
    ELSE table \cup {row}

InsertPlain(table, row) == table \cup {row}

\* INSERT OR REPLACE under UNIQUE(username, key): the conflicting row goes
InsertOrReplace(table, row) ==
    {r \in table : ~(r.username = row.username /\ r.key = row.key)} \cup {row}

SelectRow_parseAlways(table, u, k) ==
    JSONparse(IF \E r \in table : r.username = u /\ r.key = k
              THEN (CHOOSE r \in table : r.username = u /\ r.key = k).data
              ELSE <<>>)

\* stmt.get(userName, key): row ? JSON.parse(row.data) : null
SelectRow(table, u, k) ==
    IF \E r \in table : r.username = u /\ r.key = k
    THEN JSONparse((CHOOSE r \in table : r.username = u /\ r.key = k).data)
    ELSE null

\* rows.forEach(row => result[row.key] = JSON.parse(row.data))
SelectAll(table, u) ==
    LET rows == {r \in table : r.username = u}
    IN  [k \in {r.key : r \in rows} |->
            JSONparse((CHOOSE r \in rows : r.key = k).data)]

----------------------------------------------------------------------------
(* The record of the last call *)

NoCall ==
    [op |-> "none", user |-> "", key |-> "", source |-> <<>>, id |-> <<>>,
     keyword |-> 0, password |-> "", doc |-> null, outcome |-> "ok",
     owned |-> 0, config |-> <<>>, failedAt |-> 0]

Call(op, u) == [NoCall EXCEPT !.op = op, !.user = u]

\* what every call does besides its statements
Done(call) ==
    /\ last' = call
    /\ nops' = nops + 1
    /\ UNCHANGED <<adminTables, calls, connection>>

----------------------------------------------------------------------------
(* Users *)

UserRow(u) == CHOOSE r \in users : r.username = u

UserExists(u) == \E r \in users : r.username = u

ReplaceUser(table, row) ==
    [rows |-> {r \in table : r.username # row.username} \cup {row},
     outcome |-> "ok"]

\* INSERT INTO users under PRIMARY KEY (username)
InsertUser(table, row) ==
    IF \E r \in table : r.username = row.username
    THEN [rows |-> table, outcome |-> "SQLITE_CONSTRAINT_PRIMARYKEY"]
    ELSE [rows |-> table \cup {row}, outcome |-> "ok"]

RegisterUser(u, p) ==
    /\ LET res == InsertUser(users,
                      [username |-> u, password |-> p, role |-> "user",
                       banned |-> 0, tags |-> NULL, enabled_apis |-> NULL])
       IN  /\ users' = res.rows
           /\ Done([Call("registerUser", u) EXCEPT !.password = p,
                       !.outcome = res.outcome])
    /\ UNCHANGED <<play_records, favorites, skip_configs, search_history,
                   nextId, now>>

verifyUser_anyPassword(u, p) == UserExists(u)

verifyUser(u, p) ==
    IF ~UserExists(u) THEN FALSE ELSE UserRow(u).password = p

checkUserExist(u) == UserExists(u)

ChangePassword(u, p) ==
    /\ users' = {IF r.username = u THEN [r EXCEPT !.password = p] ELSE r :
                    r \in users}
    /\ Done([Call("changePassword", u) EXCEPT !.password = p])
    /\ UNCHANGED <<play_records, favorites, skip_configs, search_history,
                   nextId, now>>

\* the number of rows of the four per-user tables that belong to u
Owned(u) ==
    Cardinality({r \in play_records : r.username = u})
    + Cardinality({r \in favorites : r.username = u})
    + Cardinality({r \in skip_configs : r.username = u})
    + Cardinality({r \in search_history : r.username = u})

DeleteUser(u) ==
    /\ users' = {r \in users : r.username # u}
    /\ play_records' = Cascade(play_records, u)
    /\ favorites' = Cascade(favorites, u)
    /\ skip_configs' = Cascade(skip_configs, u)
    /\ search_history' = Cascade(search_history, u)
    /\ Done([Call("deleteUser", u) EXCEPT !.owned = Owned(u)])
    /\ UNCHANGED <<nextId, now>>

----------------------------------------------------------------------------
(* Play records, favorites, skip configs *)

\* the statement of setPlayRecord, setFavorite and setSkipConfig
Upsert(table, u, k, doc) ==
    IF ForeignKeyOk(u)
    THEN [rows |-> InsertOrReplace(table,
                      [username |-> u, key |-> k, data |-> JSONstringify(doc)]),
          outcome |-> "ok"]
    ELSE [rows |-> table, outcome |-> "SQLITE_CONSTRAINT_FOREIGNKEY"]

DeleteRow_anyUser(table, u, k) == {r \in table : r.key # k}

\* the statement of deletePlayRecord, deleteFavorite and deleteSkipConfig
DeleteRow(table, u, k) == {r \in table : ~(r.username = u /\ r.key = k)}

getPlayRecord(u, k) == SelectRow(play_records, u, k)

getAllPlayRecords(u) == SelectAll(play_records, u)

SetPlayRecord(u, k, doc) ==
    /\ LET res == Upsert(play_records, u, k, doc)
       IN  /\ play_records' = res.rows
           /\ Done([Call("setPlayRecord", u) EXCEPT !.key = k, !.doc = doc,
                       !.outcome = res.outcome])
    /\ UNCHANGED <<users, favorites, skip_configs, search_history, nextId, now>>

DeletePlayRecord(u, k) ==
    /\ play_records' = DeleteRow(play_records, u, k)
    /\ Done([Call("deletePlayRecord", u) EXCEPT !.key = k])
    /\ UNCHANGED <<users, favorites, skip_configs, search_history, nextId, now>>

getFavorite(u, k) == SelectRow(favorites, u, k)

getAllFavorites(u) == SelectAll(favorites, u)

SetFavorite(u, k, doc) ==
    /\ LET res == Upsert(favorites, u, k, doc)
       IN  /\ favorites' = res.rows
           /\ Done([Call("setFavorite", u) EXCEPT !.key = k, !.doc = doc,
                       !.outcome = res.outcome])
    /\ UNCHANGED <<users, play_records, skip_configs, search_history, nextId,
                   now>>

DeleteFavorite(u, k) ==
    /\ favorites' = DeleteRow(favorites, u, k)
    /\ Done([Call("deleteFavorite", u) EXCEPT !.key = k])
    /\ UNCHANGED <<users, play_records, skip_configs, search_history, nextId,
                   now>>

skipConfigKey(source, id) == source \o <<"+">> \o id

getSkipConfig(u, source, id) ==
    SelectRow(skip_configs, u, skipConfigKey(source, id))

getAllSkipConfigs(u) == SelectAll(skip_configs, u)

SetSkipConfig(u, source, id, doc) ==
    /\ LET res == Upsert(skip_configs, u, skipConfigKey(source, id), doc)
       IN  /\ skip_configs' = res.rows
           /\ Done([Call("setSkipConfig", u) EXCEPT !.source = source,
                       !.id = id, !.doc = doc, !.outcome = res.outcome])
    /\ UNCHANGED <<users, play_records, favorites, search_history, nextId, now>>

DeleteSkipConfig(u, source, id) ==
    /\ skip_configs' = DeleteRow(skip_configs, u, skipConfigKey(source, id))
    /\ Done([Call("deleteSkipConfig", u) EXCEPT !.source = source, !.id = id])
    /\ UNCHANGED <<users, play_records, favorites, search_history, nextId, now>>

----------------------------------------------------------------------------
(* Search history *)

\* the orders in which rows of equal created_at can come out of
\* ORDER BY created_at DESC, which leaves their order open
TieBreaks == {"rowid_asc", "rowid_desc"}

Before(r, q, tb) ==
    \/ r.created_at > q.created_at
    \/ /\ r.created_at = q.created_at
       /\ IF tb = "rowid_asc" THEN r.id < q.id ELSE r.id > q.id

\* the rows in the order of ORDER BY created_at DESC under tie-break tb
RECURSIVE OrderByCreatedDesc(_, _)
OrderByCreatedDesc(rows, tb) ==
    IF rows = {} THEN <<>>
    ELSE LET first == CHOOSE r \in rows :
                          \A q \in rows \ {r} : Before(r, q, tb)
         IN  <<first>> \o OrderByCreatedDesc(rows \ {first}, tb)

Limit(seq, n) == SubSeq(seq, 1, IF Len(seq) < n THEN Len(seq) ELSE n)

\* getSearchHistory when ties come out in order tb
getSearchHistory(u, tb) ==
    LET rows == {r \in search_history : r.username = u}
        top  == Limit(OrderByCreatedDesc(rows, tb), SEARCH_HISTORY_LIMIT)
    IN  [i \in 1..Len(top) |-> top[i].keyword]

\* the subsets of S with k elements
RECURSIVE KSubsets(_, _)
KSubsets(S, k) ==
    IF k = 0 THEN {{}}
    ELSE UNION {{T \cup {x} : T \in KSubsets(S \ {x}, k - 1)} : x \in S}

\* the sets of rows SELECT id ... ORDER BY created_at DESC LIMIT n can yield:
\* n rows none of which is older than a row left out
TopSets(rows, n) ==
    IF Cardinality(rows) <= n THEN {rows}
    ELSE {rows \ D : D \in
            {D \in KSubsets(rows, Cardinality(rows) - n) :
                \A d \in D : \A r \in rows \ D : d.created_at <= r.created_at}}

Trim_nothing(table, u, keep) == table

\* DELETE ... WHERE username = u AND id NOT IN (the n newest of u)
Trim(table, u, keep) == {r \in table : r.username # u \/ r \in keep}

AddSearchHistory(u, k) ==
    LET deleted == {r \in search_history :
                        ~(r.username = u /\ r.keyword = k)}
        row == [id |-> nextId, username |-> u, keyword |-> k,
                created_at |-> now]
    IN  IF ~ForeignKeyOk(u)
        THEN /\ search_history' = deleted
             /\ nextId' = nextId
             /\ Done([Call("addSearchHistory", u) EXCEPT !.keyword = k,
                         !.outcome = "SQLITE_CONSTRAINT_FOREIGNKEY"])
             /\ UNCHANGED <<users, play_records, favorites, skip_configs, now>>
        ELSE /\ \E keep \in TopSets({r \in deleted \cup {row} : r.username = u},
                                    SEARCH_HISTORY_LIMIT) :
                    search_history' = Trim(deleted \cup {row}, u, keep)
             /\ nextId' = nextId + 1
             /\ Done([Call("addSearchHistory", u) EXCEPT !.keyword = k])
             /\ UNCHANGED <<users, play_records, favorites, skip_configs, now>>

\* k = NoKeyword: the keyword argument is absent or empty
DeleteSearchHistory(u, k) ==
    /\ search_history' =
          IF k # NoKeyword
          THEN {r \in search_history : ~(r.username = u /\ r.keyword = k)}
          ELSE {r \in search_history : r.username # u}
    /\ Done([Call("deleteSearchHistory", u) EXCEPT !.keyword = k])
    /\ UNCHANGED <<users, play_records, favorites, skip_configs, nextId, now>>

\* a second passes
Tick ==
    /\ now' = now + 1
    /\ Done(Call("tick", ""))
    /\ UNCHANGED <<users, play_records, favorites, skip_configs,
                   search_history, nextId>>

----------------------------------------------------------------------------
(* JSON.stringify and JSON.parse on arrays of plain strings; a string of    *)
(* the array is one token of the text                                      *)

RECURSIVE ArrayItems(_)
ArrayItems(arr) ==
    IF arr = <<>> THEN <<>>
    ELSE IF Len(arr) = 1 THEN <<QUOTE, arr[1], QUOTE>>
    ELSE <<QUOTE, arr[1], QUOTE, ",">> \o ArrayItems(Tail(arr))

JSONstringifyArray(arr) == <<"[">> \o ArrayItems(arr) \o <<"]">>

\* what JSON.parse makes of a text: the array, or ok = FALSE for a SyntaxError
Parsed(arr) == [ok |-> TRUE, val |-> arr]

NotParsed == [ok |-> FALSE, val |-> <<>>]

\* reads `"item"` and `,"item"` from position i up to the closing bracket
RECURSIVE ParseItems(_, _, _)
ParseItems(text, i, acc) ==
    IF i > Len(text) THEN NotParsed
    ELSE IF text[i] = "]"
         THEN IF i = Len(text) THEN Parsed(acc) ELSE NotParsed
    ELSE LET j == IF acc = <<>> THEN i ELSE i + 1
         IN  IF /\ acc # <<>> => text[i] = ","
                /\ j + 2 <= Len(text)
                /\ text[j] = QUOTE
                /\ text[j + 2] = QUOTE
             THEN ParseItems(text, j + 3, Append(acc, text[j + 1]))
             ELSE NotParsed

JSONparseArray(text) ==
    IF Len(text) >= 2 /\ text[1] = "[" THEN ParseItems(text, 2, <<>>)
    ELSE NotParsed

----------------------------------------------------------------------------
(* Users, user groups, sources and categories as lists *)

UserOfRow_withPassword(row, withPassword) ==
    LET tags == IF row.tags = NULL \/ row.tags = <<>> THEN Parsed(<<>>)
                ELSE JSONparseArray(row.tags)
        apis == IF row.enabled_apis = NULL \/ row.enabled_apis = <<>>
                THEN Parsed(<<>>)
                ELSE JSONparseArray(row.enabled_apis)
    IN  [username |-> row.username,
         password |-> row.password,
         role |-> IF row.role = "" THEN "user" ELSE row.role,
         banned |-> row.banned # 0,
         tags |-> tags.val,
         enabledApis |-> IF tags.ok THEN apis.val ELSE <<>>]

\* rows.map(row => ...) of getAllUsers
UserOfRow(row, withPassword) ==
    LET tags == IF row.tags = NULL \/ row.tags = <<>> THEN Parsed(<<>>)
                ELSE JSONparseArray(row.tags)
        apis == IF row.enabled_apis = NULL \/ row.enabled_apis = <<>>
                THEN Parsed(<<>>)
                ELSE JSONparseArray(row.enabled_apis)
    IN  [username |-> row.username,
         password |-> IF withPassword THEN row.password ELSE UNDEFINED,
         role |-> IF row.role = "" THEN "user" ELSE row.role,
         banned |-> row.banned # 0,
         tags |-> tags.val,
         enabledApis |-> IF tags.ok THEN apis.val ELSE <<>>]

\* the rows come in no stated order: the result is taken as a set
getAllUsers(withPassword) == {UserOfRow(r, withPassword) : r \in users}

UpdateUser_upsert(table, user) ==
    {r \in table : r.username # user.username}
    \cup {[username |-> user.username, password |-> "",
           role |-> IF user.role = UNDEFINED \/ user.role = ""
                    THEN "user" ELSE user.role,
           banned |-> IF user.banned THEN 1 ELSE 0,
           tags |-> JSONstringifyArray(user.tags),
           enabled_apis |-> JSONstringifyArray(user.enabledApis)]}

\* UPDATE users SET role, banned, tags, enabled_apis WHERE username = ?
UpdateUser(table, user) ==
    {IF r.username = user.username
     THEN [r EXCEPT
             !.role = IF user.role = UNDEFINED \/ user.role = ""
                      THEN "user" ELSE user.role,
             !.banned = IF user.banned THEN 1 ELSE 0,
             !.tags = JSONstringifyArray(user.tags),
             !.enabled_apis = JSONstringifyArray(user.enabledApis)]
     ELSE r : r \in table}

\* for (const x of list) stmt.run(x), in the order of the list
RECURSIVE setAllUsers(_, _)
setAllUsers(table, list) ==
    IF list = <<>> THEN table
    ELSE setAllUsers(UpdateUser(table, Head(list)), Tail(list))

GroupOfRow(row) ==
    [name |-> row.name, enabledApis |-> JSONparseArray(row.value).val]

getAllUserGroups == {GroupOfRow(r) : r \in user_groups}

\* INSERT OR REPLACE INTO user_groups (name, value)
PutUserGroup(table, g) ==
    {r \in table : r.name # g.name}
    \cup {[name |-> g.name, value |-> JSONstringifyArray(g.enabledApis)]}

\* for (const x of list) stmt.run(x), in the order of the list
RECURSIVE setAllUserGroups(_, _)
setAllUserGroups(table, list) ==
    IF list = <<>> THEN table
    ELSE setAllUserGroups(PutUserGroup(table, Head(list)), Tail(list))

ApiSourceOfRow(row) ==
    [key |-> row.key, name |-> row.name, api |-> row.api,
     detail |-> IF row.detail = "" THEN UNDEFINED ELSE row.detail,
     from |-> row.from_source, disabled |-> row.disabled # 0]

getAllApiSources == {ApiSourceOfRow(r) : r \in api_sources}

PutApiSource_only(table, x) ==
    {[key |-> x.key, name |-> x.name, api |-> x.api, detail |-> x.detail,
      from_source |-> x.from, disabled |-> IF x.disabled THEN 1 ELSE 0]}

\* INSERT OR REPLACE INTO api_sources
PutApiSource(table, x) ==
    {r \in table : r.key # x.key}
    \cup {[key |-> x.key, name |-> x.name, api |-> x.api, detail |-> x.detail,
           from_source |-> x.from, disabled |-> IF x.disabled THEN 1 ELSE 0]}

\* for (const x of list) stmt.run(x), in the order of the list
RECURSIVE setAllApiSources(_, _)
setAllApiSources(table, list) ==
    IF list = <<>> THEN table
    ELSE setAllApiSources(PutApiSource(table, Head(list)), Tail(list))

LiveSourceOfRow(row) ==
    [key |-> row.key, name |-> row.name, url |-> row.url,
     ua |-> IF row.user_agent = "" THEN UNDEFINED ELSE row.user_agent,
     epg |-> IF row.epg = "" THEN UNDEFINED ELSE row.epg,
     from |-> row.from_source,
     channelNumber |-> IF row.channel_number = Present(0) THEN Absent
                       ELSE row.channel_number,
     disabled |-> row.disabled # 0]

getAllLiveSources == {LiveSourceOfRow(r) : r \in live_sources}

\* INSERT OR REPLACE INTO live_sources
PutLiveSource(table, x) ==
    {r \in table : r.key # x.key}
    \cup {[key |-> x.key, name |-> x.name, url |-> x.url,
           user_agent |-> x.ua, epg |-> x.epg, from_source |-> x.from,
           channel_number |-> x.channelNumber,
           disabled |-> IF x.disabled THEN 1 ELSE 0]}

\* for (const x of list) stmt.run(x), in the order of the list
RECURSIVE setAllLiveSources(_, _)
setAllLiveSources(table, list) ==
    IF list = <<>> THEN table
    ELSE setAllLiveSources(PutLiveSource(table, Head(list)), Tail(list))

CategoryOfRow(row) ==
    [query |-> row.query, type |-> row.type,
     name |-> IF row.name = "" THEN UNDEFINED ELSE row.name,
     from |-> row.from_source, disabled |-> row.disabled # 0]

getAllCategories == {CategoryOfRow(r) : r \in categories}

\* INSERT OR REPLACE INTO categories, PRIMARY KEY (query, type)
PutCategory(table, x) ==
    {r \in table : ~(r.query = x.query /\ r.type = x.type)}
    \cup {[query |-> x.query, type |-> x.type, name |-> x.name,
           from_source |-> x.from, disabled |-> IF x.disabled THEN 1 ELSE 0]}

\* for (const x of list) stmt.run(x), in the order of the list
RECURSIVE setAllCategories(_, _)
setAllCategories(table, list) ==
    IF list = <<>> THEN table
    ELSE setAllCategories(PutCategory(table, Head(list)), Tail(list))

----------------------------------------------------------------------------
(* The admin config *)

\* the site settings and the subscription descriptor are documents: a string
\* (SiteName, URL) and a number (SearchDownstreamMaxPage, AutoUpdate as 0/1)
DefaultSubscription == [t |-> <<>>, n |-> 0]

DefaultSiteConfig == [t |-> <<"L", "u", "n", "a", "T", "V">>, n |-> 5]

\* the value of the admin_config row called name, as a set of 0 or 1 texts
ConfigValue(name) == {r.value : r \in {q \in admin_config : q.name = name}}

\* JSON.parse of the text accepts it
ValidJSON(text) == JSONparse(text) # SyntaxError \/ JSONparseArray(text).ok

\* the keys whose parsed value the lists of the tables replace afterwards
ReplacedKeys == {"source_config", "custom_categories", "live_config"}

Overlay_tolerant(name, default) ==
    IF ConfigValue(name) = {} THEN default
    ELSE LET v == JSONparse(CHOOSE v \in ConfigValue(name) : TRUE)
         IN  IF v = SyntaxError THEN default ELSE v

\* the overlay of one recognized key on a default
Overlay(name, default) ==
    IF ConfigValue(name) = {} THEN default
    ELSE JSONparse(CHOOSE v \in ConfigValue(name) : TRUE)

getAdminConfig ==
    LET file == IF ConfigValue("config_file") = {} THEN <<>>
                ELSE CHOOSE v \in ConfigValue("config_file") : TRUE
        sub  == Overlay("config_subscription", DefaultSubscription)
        site == Overlay("site_config", DefaultSiteConfig)
    IN  IF \/ sub = SyntaxError
           \/ site = SyntaxError
           \/ \E r \in admin_config :
                 r.name \in ReplacedKeys /\ ~ValidJSON(r.value)
        THEN null
        ELSE [ConfigSubscribtion |-> sub,
              ConfigFile |-> file,
              SiteConfig |-> site,
              UserConfig |-> [Users |-> getAllUsers(FALSE),
                              Tags |-> getAllUserGroups],
              SourceConfig |-> getAllApiSources,
              CustomCategories |-> getAllCategories,
              LiveConfig |-> getAllLiveSources]

\* INSERT OR REPLACE INTO admin_config (name, value)
PutConfig(table, name, value) ==
    {r \in table : r.name # name} \cup {[name |-> name, value |-> value]}

Truthy_always(text) == TRUE

\* if (config.ConfigFile): the empty string is falsy
Truthy(text) == text # <<>>

\* the tables setAdminConfig writes to, as they are
Stored ==
    [admin_config |-> admin_config, users |-> users,
     user_groups |-> user_groups, api_sources |-> api_sources,
     categories |-> categories, live_sources |-> live_sources]

\* the destinations of setAdminConfig, in the order of its statements:
\* config file, subscription, site settings, users, tags, content sources,
\* categories, live sources
NumDestinations == 8

\* the d-th destination is written to, when its field is present
WriteDestination(t, config, d) ==
    CASE d = 1 ->
           IF Truthy(config.ConfigFile)
           THEN [t EXCEPT !.admin_config =
                    PutConfig(@, "config_file", config.ConfigFile)]
           ELSE t
      [] d = 2 ->
           IF config.ConfigSubscribtion # Absent
           THEN [t EXCEPT !.admin_config =
                    PutConfig(@, "config_subscription",
                              JSONstringify(config.ConfigSubscribtion[1]))]
           ELSE t
      [] d = 3 ->
           IF config.SiteConfig # Absent
           THEN [t EXCEPT !.admin_config =
                    PutConfig(@, "site_config",
                              JSONstringify(config.SiteConfig[1]))]
           ELSE t
      [] d = 4 ->
           [t EXCEPT !.users = setAllUsers(@, config.UserConfig.Users)]
      [] d = 5 ->
           IF config.UserConfig.Tags # Absent
           THEN [t EXCEPT !.user_groups =
                    setAllUserGroups(@, config.UserConfig.Tags[1])]
           ELSE t
      [] d = 6 ->
           [t EXCEPT !.api_sources = setAllApiSources(@, config.SourceConfig)]
      [] d = 7 ->
           [t EXCEPT !.categories =
               setAllCategories(@, config.CustomCategories)]
      [] d = 8 ->
           IF config.LiveConfig # Absent
           THEN [t EXCEPT !.live_sources =
                    setAllLiveSources(@, config.LiveConfig[1])]
           ELSE t

\* the tables after the first n destinations are written to, each statement
\* committed as it runs
RECURSIVE WriteDestinations(_, _, _)
WriteDestinations(t, config, n) ==
    IF n = 0 THEN t
    ELSE WriteDestination(WriteDestinations(t, config, n - 1), config, n)

\* the tables become t
Store(t) ==
    /\ admin_config' = t.admin_config
    /\ users' = t.users
    /\ user_groups' = t.user_groups
    /\ api_sources' = t.api_sources
    /\ categories' = t.categories
    /\ live_sources' = t.live_sources

SetAdminConfig(config) ==
    /\ Store(WriteDestinations(Stored, config, NumDestinations))
    /\ last' = [Call("setAdminConfig", "") EXCEPT !.config = Present(config)]
    /\ nops' = nops + 1
    /\ UNCHANGED <<play_records, favorites, skip_configs, search_history,
                   calls, nextId, now, connection>>

\* the list the d-th destination runs its statement over
DestinationList(config, d) ==
    CASE d = 4 -> config.UserConfig.Users
      [] d = 5 -> IF config.UserConfig.Tags = Absent THEN <<>>
                  ELSE config.UserConfig.Tags[1]
      [] d = 6 -> config.SourceConfig
      [] d = 7 -> config.CustomCategories
      [] d = 8 -> IF config.LiveConfig = Absent THEN <<>>
                  ELSE config.LiveConfig[1]
      [] OTHER -> <<>>

\* the d-th destination runs a statement
RunsStatement(config, d) ==
    CASE d = 1 -> Truthy(config.ConfigFile)
      [] d = 2 -> config.ConfigSubscribtion # Absent
      [] d = 3 -> config.SiteConfig # Absent
      [] OTHER -> DestinationList(config, d) # <<>>

\* config with the list of the d-th destination cut to its first n items
Truncated(config, d, n) ==
    CASE d = 4 -> [config EXCEPT !.UserConfig.Users = SubSeq(@, 1, n)]
      [] d = 5 -> [config EXCEPT
                     !.UserConfig.Tags = Present(SubSeq(@[1], 1, n))]
      [] d = 6 -> [config EXCEPT !.SourceConfig = SubSeq(@, 1, n)]
      [] d = 7 -> [config EXCEPT !.CustomCategories = SubSeq(@, 1, n)]
      [] d = 8 -> [config EXCEPT !.LiveConfig = Present(SubSeq(@[1], 1, n))]
      [] OTHER -> config

FailedWrite_rollback(t, config, d, n) == t

\* the tables when the statement of the d-th destination throws after n of
\* its runs: what ran before stays, nothing runs after
FailedWrite(t, config, d, n) ==
    LET before == WriteDestinations(t, config, d - 1)
    IN  IF n = 0 THEN before
        ELSE WriteDestination(before, Truncated(config, d, n), d)

\* setAdminConfig(config) whose d-th destination throws (a lock error on its
\* third attempt, or any other error) after n runs of its statement
SetAdminConfigFails(config, d, n) ==
    /\ RunsStatement(config, d)
    /\ n < Len(DestinationList(config, d)) \/ n = 0
    /\ Store(FailedWrite(Stored, config, d, n))
    /\ last' = [Call("setAdminConfig", "") EXCEPT
                  !.config = Present(config),
                  !.outcome = "thrown",
                  !.failedAt = d]
    /\ nops' = nops + 1
    /\ UNCHANGED <<play_records, favorites, skip_configs, search_history,
                   calls, nextId, now, connection>>

----------------------------------------------------------------------------
(* The store after its first open *)

\* the steps of getSqliteDatabase, by name
MKDIR == "fs.mkdirSync"

NEW_DATABASE == "new Database"

PRAGMA_WAL == "journal_mode = WAL"

PRAGMA_FOREIGN_KEYS == "foreign_keys = ON"

CREATE_TABLES == "CREATE TABLE IF NOT EXISTS"

CREATE_INDEXES == "CREATE INDEX IF NOT EXISTS"

INSERT_OWNER == "INSERT INTO users"

\* stmt.run(ADMIN_USERNAME, ADMIN_PASSWORD, 'owner', 0)
OwnerRow ==
    [username |-> ADMIN_USERNAME, password |-> ADMIN_PASSWORD,
     role |-> "owner", banned |-> 0, tags |-> NULL, enabled_apis |-> NULL]

Cached_never == FALSE

\* if (!db): the process holds a handle already
Cached == global_db # 0

initialized_never == FALSE

\* const initialized = fs.existsSync(dbPath)
initialized == fileExists

\* the steps of a call of getSqliteDatabase that finds no handle
OpenSteps ==
    (IF dirExists THEN <<>> ELSE <<MKDIR>>)
    \o <<NEW_DATABASE, PRAGMA_WAL, PRAGMA_FOREIGN_KEYS>>
    \o (IF initialized THEN <<>>
        ELSE <<CREATE_TABLES, CREATE_INDEXES, INSERT_OWNER>>)

\* new SqliteStorage(): this.db = getSqliteDatabase().  A failing owner
\* insert throws out of getSqliteDatabase: no handle is kept, no object made.
NewSqliteStorage ==
    LET seed == InsertUser(users, OwnerRow)
        thrown == ~Cached /\ ~initialized /\ seed.outcome # "ok"
    IN  /\ IF Cached
           THEN /\ steps' = <<>>
                /\ UNCHANGED <<users, dirExists, fileExists, global_db,
                               opened, seeded>>
           ELSE /\ steps' = OpenSteps
                /\ dirExists' = TRUE
                /\ fileExists' = TRUE
                /\ opened' = opened + 1
                /\ users' = IF initialized THEN users ELSE seed.rows
                /\ seeded' = IF initialized \/ thrown THEN seeded
                             ELSE seeded + 1
                /\ global_db' = IF thrown THEN global_db ELSE opened + 1
        /\ storages' = IF thrown THEN storages
                       ELSE Append(storages, global_db')
        /\ last' = [Call("new SqliteStorage", "") EXCEPT
                      !.outcome = IF thrown THEN seed.outcome ELSE "ok"]
        /\ nops' = nops + 1
        /\ UNCHANGED <<play_records, favorites, skip_configs, search_history,
                       adminTables, calls, nextId, now>>

\* the process ends; the store file stays
Exit ==
    /\ global_db' = 0
    /\ opened' = 0
    /\ storages' = <<>>
    /\ steps' = <<>>
    /\ last' = Call("exit", "")
    /\ nops' = nops + 1
    /\ UNCHANGED <<users, play_records, favorites, skip_configs,
                   search_history, adminTables, calls, nextId, now,
                   dirExists, fileExists, seeded>>

\* no store file yet, with or without its directory
NoStore ==
    /\ users = {}
    /\ play_records = {}
    /\ favorites = {}
    /\ skip_configs = {}
    /\ search_history = {}
    /\ admin_config = {}
    /\ user_groups = {}
    /\ api_sources = {}
    /\ live_sources = {}
    /\ categories = {}
    /\ calls = <<>>
    /\ nextId = 1
    /\ now = 0
    /\ nops = 0
    /\ last = NoCall
    /\ dirExists \in BOOLEAN
    /\ fileExists = FALSE
    /\ global_db = 0
    /\ opened = 0
    /\ storages = <<>>
    /\ steps = <<>>
    /\ seeded = 0

\* the first open has run and one SqliteStorage is constructed: empty tables
\* and the seed owner
FirstOpen ==
    /\ users = {OwnerRow}
    /\ dirExists = TRUE
    /\ fileExists = TRUE
    /\ global_db = 1
    /\ opened = 1
    /\ storages = <<1>>
    /\ steps = <<NEW_DATABASE, PRAGMA_WAL, PRAGMA_FOREIGN_KEYS,
                 CREATE_TABLES, CREATE_INDEXES, INSERT_OWNER>>
    /\ seeded = 1
    /\ play_records = {}
    /\ favorites = {}
    /\ skip_configs = {}
    /\ search_history = {}
    /\ admin_config = {}
    /\ user_groups = {}
    /\ api_sources = {}
    /\ live_sources = {}
    /\ categories = {}
    /\ nextId = 1
    /\ now = 0
    /\ nops = 0
    /\ last = NoCall

Init ==
    /\ FirstOpen
    /\ calls = <<>>

----------------------------------------------------------------------------
(* The calls of one client, one at a time *)

\* a run is cut after MaxOps steps
Bounded == nops < MaxOps

Next ==
    \/ Bounded /\ Tick
    \/ \E u \in UserNames, p \in Passwords : Bounded /\ RegisterUser(u, p)
    \/ \E u \in UserNames, p \in Passwords : Bounded /\ ChangePassword(u, p)
    \/ \E u \in UserNames : Bounded /\ DeleteUser(u)
    \/ \E u \in UserNames, k \in RecordKeys, d \in Docs :
          Bounded /\ SetPlayRecord(u, k, d)
    \/ \E u \in UserNames, k \in RecordKeys :
          Bounded /\ DeletePlayRecord(u, k)
    \/ \E u \in UserNames, k \in RecordKeys, d \in Docs :
          Bounded /\ SetFavorite(u, k, d)
    \/ \E u \in UserNames, k \in RecordKeys : Bounded /\ DeleteFavorite(u, k)
    \/ \E u \in UserNames, se \in SkipPairs, d \in Docs :
          Bounded /\ SetSkipConfig(u, se[1], se[2], d)
    \/ \E u \in UserNames, se \in SkipPairs :
          Bounded /\ DeleteSkipConfig(u, se[1], se[2])
    \/ \E u \in UserNames, k \in Keywords : Bounded /\ AddSearchHistory(u, k)
    \/ \E u \in UserNames, k \in Keywords \cup {NoKeyword} :
          Bounded /\ DeleteSearchHistory(u, k)

Spec == Init /\ [][Next]_vars

----------------------------------------------------------------------------
(* The admin writes configs, users register and are deleted *)

SourceA ==
    [key |-> "a", name |-> "A", api |-> "http://a", detail |-> "http://a/d",
     from |-> "config", disabled |-> FALSE]

SourceARenamed == [SourceA EXCEPT !.name = "A2", !.disabled = TRUE]

SourceB ==
    [key |-> "b", name |-> "B", api |-> "http://b", detail |-> "http://b/d",
     from |-> "custom", disabled |-> FALSE]

LiveA ==
    [key |-> "l", name |-> "L", url |-> "http://l", ua |-> "ua",
     epg |-> "http://l/epg", from |-> "config", channelNumber |-> Present(3),
     disabled |-> FALSE]

CategoryA ==
    [query |-> "q", type |-> "movie", name |-> "Q", from |-> "custom",
     disabled |-> FALSE]

GroupA == [name |-> "t1", enabledApis |-> <<"a", "b">>]

AdminU1 ==
    [username |-> "u1", password |-> UNDEFINED, role |-> "admin",
     banned |-> TRUE, tags |-> <<"t1">>, enabledApis |-> <<"a">>]

OwnerAdmin ==
    [username |-> ADMIN_USERNAME, password |-> UNDEFINED, role |-> "owner",
     banned |-> FALSE, tags |-> <<>>, enabledApis |-> <<>>]

EmptyConfig ==
    [ConfigSubscribtion |-> Present(DefaultSubscription), ConfigFile |-> <<>>,
     SiteConfig |-> Present(DefaultSiteConfig),
     UserConfig |-> [Users |-> <<>>, Tags |-> Absent],
     SourceConfig |-> <<>>, CustomCategories |-> <<>>, LiveConfig |-> Absent]

FullConfig ==
    [ConfigSubscribtion |-> Present([t |-> <<"u">>, n |-> 1]),
     ConfigFile |-> <<"f", "1">>,
     SiteConfig |-> Present([t |-> <<"S", QUOTE>>, n |-> 7]),
     UserConfig |-> [Users |-> <<OwnerAdmin, AdminU1>>,
                     Tags |-> Present(<<GroupA>>)],
     SourceConfig |-> <<SourceA, SourceB>>,
     CustomCategories |-> <<CategoryA>>,
     LiveConfig |-> Present(<<LiveA>>)]

\* no config file, no subscription, no site settings
KeepConfig ==
    [EmptyConfig EXCEPT !.ConfigSubscribtion = Absent, !.SiteConfig = Absent]

Configs ==
    {EmptyConfig,
     KeepConfig,
     FullConfig,
     [FullConfig EXCEPT !.ConfigFile = <<"f", "2">>,
                        !.SourceConfig = <<SourceARenamed>>,
                        !.UserConfig.Users = <<OwnerAdmin>>],
     [FullConfig EXCEPT !.ConfigFile = <<>>,
                        !.SiteConfig = Present(DefaultSiteConfig),
                        !.SourceConfig = <<>>,
                        !.CustomCategories = <<>>,
                        !.UserConfig.Tags = Present(<<>>),
                        !.LiveConfig = Present(<<>>)]}

AdminNext ==
    \/ \E config \in Configs : Bounded /\ SetAdminConfig(config)
    \/ \E u \in UserNames, p \in Passwords : Bounded /\ RegisterUser(u, p)
    \/ \E u \in UserNames : Bounded /\ DeleteUser(u)

SpecAdmin == Init /\ [][AdminNext]_vars

----------------------------------------------------------------------------
(* Writes of the admin config that fail part of the way *)

\* items of the longest list of a config
MaxItems == 2

PartialNext ==
    \/ \E config \in Configs : Bounded /\ SetAdminConfig(config)
    \/ \E config \in Configs, d \in 1..NumDestinations, n \in 0..(MaxItems - 1) :
          Bounded /\ SetAdminConfigFails(config, d, n)
    \/ \E u \in UserNames, p \in Passwords : Bounded /\ RegisterUser(u, p)

SpecPartial == Init /\ [][PartialNext]_vars

----------------------------------------------------------------------------
(* A store whose admin_config holds rows of keys that setAdminConfig never  *)
(* writes, left there by another version of the program                    *)

\* a key getAdminConfig parses and then replaces, and a key it does not know
OtherKeys == {"source_config", "theme"}

\* a JSON text and a text that is no JSON
OtherValues == {<<"[", "]">>, <<"[">>}

\* INSERT OR REPLACE INTO admin_config by the other program
OtherWriterPuts(name, value) ==
    /\ admin_config' = PutConfig(admin_config, name, value)
    /\ last' = Call("otherWriter", "")
    /\ nops' = nops + 1
    /\ UNCHANGED <<users, play_records, favorites, skip_configs,
                   search_history, user_groups, api_sources, live_sources,
                   categories, calls, nextId, now, connection>>

OtherRowsNext ==
    \/ \E config \in Configs : Bounded /\ SetAdminConfig(config)
    \/ \E name \in OtherKeys, value \in OtherValues :
          Bounded /\ OtherWriterPuts(name, value)
    \/ \E u \in UserNames, p \in Passwords : Bounded /\ RegisterUser(u, p)

SpecOtherRows == Init /\ [][OtherRowsNext]_vars

----------------------------------------------------------------------------
(* Processes open the store, one after the other, and use it *)

OpenBounded == nops < OpenMaxOps

Running == storages # <<>>

OpenNext ==
    \/ OpenBounded /\ NewSqliteStorage
    \/ OpenBounded /\ Running /\ Exit
    \/ \E u \in UserNames, p \in Passwords :
          OpenBounded /\ Running /\ RegisterUser(u, p)
    \/ \E u \in UserNames : OpenBounded /\ Running /\ DeleteUser(u)

SpecOpen == NoStore /\ [][OpenNext]_vars

----------------------------------------------------------------------------
(* The retry wrapper, and concurrent setFavorite calls under contention *)

maxRetries == 3

\* the errors a statement can fail with
BusyError == [code |-> "SQLITE_BUSY", message |-> "database is locked"]

LockedError == [code |-> "SQLITE_LOCKED", message |-> "database table is locked"]

ForeignKeyError ==
    [code |-> "SQLITE_CONSTRAINT_FOREIGNKEY",
     message |-> "FOREIGN KEY constraint failed"]

NoError == [code |-> "ok", message |-> ""]

\* err.message?.includes('database is locked')
IncludesDatabaseIsLocked(message) == message \in {"database is locked"}

isLockError_any(err) == TRUE

isLockError(err) ==
    \/ err.code = "SQLITE_BUSY"
    \/ err.code = "SQLITE_LOCKED"
    \/ IncludesDatabaseIsLocked(err.message)

isLastAttempt_early(i) == i = maxRetries - 2

isLastAttempt(i) == i = maxRetries - 1

Backoff_constant(i) == 100

\* setTimeout(resolve, 100 * (i + 1))
Backoff(i) == 100 * (i + 1)

\* the catch block of attempt i: sleep and retry, or rethrow
Catch(i, err) ==
    IF isLockError(err) /\ ~isLastAttempt(i) THEN "sleep" ELSE "thrown"

\* the key and the document of the c-th concurrent setFavorite
CallKey(c) == c

CallDoc(c) == CHOOSE d \in Docs : (d.n = MaxNum) <=> (c % 2 = 0)

\* attempt i of call c runs operation(): the statement of setFavorite, which
\* another process holding the lock makes fail with a lock error
RetryAttempt(c) ==
    /\ calls[c].pc = "try"
    /\ \E lock \in {NoError, BusyError, LockedError} :
          LET res == Upsert(favorites, calls[c].user, CallKey(c), CallDoc(c))
              err == IF lock # NoError THEN lock
                     ELSE IF res.outcome = "ok" THEN NoError
                     ELSE ForeignKeyError
          IN  IF err = NoError
              THEN /\ favorites' = res.rows
                   /\ calls' = [calls EXCEPT
                                  ![c].pc = "returned",
                                  ![c].invoked = calls[c].invoked + 1]
              ELSE /\ favorites' = favorites
                   /\ calls' = [calls EXCEPT
                                  ![c].pc = Catch(calls[c].i, err),
                                  ![c].err = err,
                                  ![c].invoked = calls[c].invoked + 1,
                                  ![c].delay =
                                     IF Catch(calls[c].i, err) = "sleep"
                                     THEN Backoff(calls[c].i)
                                     ELSE calls[c].delay]
    /\ UNCHANGED <<users, play_records, skip_configs, search_history,
                   adminTables, nextId, now, nops, last, connection>>

\* the timer of call c fires: the loop goes on with attempt i + 1
RetryWake(c) ==
    /\ calls[c].pc = "sleep"
    /\ calls' = [calls EXCEPT ![c].pc = "try", ![c].i = calls[c].i + 1]
    /\ UNCHANGED <<users, play_records, favorites, skip_configs,
                   search_history, adminTables, nextId, now, nops, last,
                   connection>>

NewCall(u) ==
    [user |-> u, i |-> 0, pc |-> "try", err |-> NoError, delay |-> 0,
     invoked |-> 0]

RetryInit ==
    /\ FirstOpen
    /\ calls \in [1..NumCalls -> {NewCall(u) : u \in UserNames}]

RetryNext ==
    \/ \E c \in 1..NumCalls : RetryAttempt(c)
    \/ \E c \in 1..NumCalls : RetryWake(c)

SpecRetry == RetryInit /\ [][RetryNext]_vars

----------------------------------------------------------------------------
(* Public operations under transient contention: the first attempts of a   *)
(* call meet a lock error, a later one would not                           *)

PublicOps == {"setFavorite", "getAdminConfig", "setAdminConfig"}

\* withRetry(async () => ...): the operation returns a promise
IsAsync(op) == op \in {"getAdminConfig", "setAdminConfig"}

\* the numbers of attempts of a call that a lock error would fail: fewer than
\* the attempts withRetry has
BusyAttempts == 0..(maxRetries - 1)

NewPublicCall(op, busy) ==
    [op |-> op, user |-> ADMIN_USERNAME, i |-> 0, pc |-> "try",
     err |-> NoError, delay |-> 0, invoked |-> 0, busy |-> busy,
     willBeBusy |-> busy, value |-> Absent]

\* attempt i of call c: return operation().  A synchronous operation throws
\* its lock error inside the try; an asynchronous one returns its promise,
\* which withRetry returns as it is, and the promise rejects with the lock
\* error of the first statement or resolves once all statements have run.
PublicAttempt(c) ==
    /\ calls[c].pc = "try"
    /\ LET call == calls[c]
           err == IF call.willBeBusy > 0 THEN BusyError ELSE NoError
           pc == IF IsAsync(call.op)
                 THEN IF err = NoError THEN "resolved" ELSE "rejected"
                 ELSE IF err = NoError THEN "returned"
                 ELSE Catch(call.i, err)
       IN  /\ calls' = [calls EXCEPT
                          ![c].pc = pc,
                          ![c].err = IF err = NoError THEN call.err ELSE err,
                          ![c].invoked = call.invoked + 1,
                          ![c].willBeBusy =
                             IF call.willBeBusy > 0 THEN call.willBeBusy - 1
                             ELSE 0,
                          ![c].delay = IF pc = "sleep" THEN Backoff(call.i)
                                       ELSE call.delay,
                          ![c].value =
                             IF err = NoError /\ call.op = "getAdminConfig"
                             THEN Present(getAdminConfig)
                             ELSE call.value]
           /\ favorites' =
                 IF err = NoError /\ call.op = "setFavorite"
                 THEN Upsert(favorites, call.user, CallKey(c), CallDoc(c)).rows
                 ELSE favorites
           /\ Store(IF err = NoError /\ call.op = "setAdminConfig"
                    THEN WriteDestinations(Stored, FullConfig, NumDestinations)
                    ELSE Stored)
    /\ UNCHANGED <<play_records, skip_configs, search_history, nextId, now,
                   nops, last, connection>>

PublicInit ==
    /\ FirstOpen
    /\ calls \in [1..NumCalls ->
                    {NewPublicCall(op, b) : op \in PublicOps,
                                            b \in BusyAttempts}]

PublicNext ==
    \/ \E c \in 1..NumCalls : PublicAttempt(c)
    \/ \E c \in 1..NumCalls : RetryWake(c)

SpecPublic == PublicInit /\ [][PublicNext]_vars

----------------------------------------------------------------------------
(* One user adds NumKeywords distinct keywords, one after the other *)

SeqAdd ==
    /\ nextId <= NumKeywords
    /\ AddSearchHistory(ADMIN_USERNAME, nextId)

SeqTick ==
    /\ now < SeqSeconds
    /\ Tick

SeqNext == SeqAdd \/ SeqTick

SpecSeq == Init /\ [][SeqNext]_vars

----------------------------------------------------------------------------
(* One user's search history: HistFill new keywords, then adds of new      *)
(* keywords, re-adds and deletes in any order                              *)

\* the keywords that are added again and deleted
ReAddKeywords == {1, 2}

HistBounded == nops < HistMaxOps

\* the user has added the first HistFill keywords
HistFilled == nextId > HistFill

HistAddNew ==
    /\ HistBounded
    /\ AddSearchHistory(ADMIN_USERNAME, nextId)

HistReAdd(k) ==
    /\ HistBounded
    /\ HistFilled
    /\ AddSearchHistory(ADMIN_USERNAME, k)

HistDelete(k) ==
    /\ HistBounded
    /\ HistFilled
    /\ DeleteSearchHistory(ADMIN_USERNAME, k)

HistTick ==
    /\ HistBounded
    /\ now < HistSeconds
    /\ Tick

HistNext ==
    \/ HistAddNew
    \/ \E k \in ReAddKeywords : HistReAdd(k)
    \/ \E k \in ReAddKeywords \cup {NoKeyword} : HistDelete(k)
    \/ HistTick

SpecHistory == Init /\ [][HistNext]_vars

----------------------------------------------------------------------------
(* Claims about the keyed repositories and the users *)

\* C1: in the state a successful setPlayRecord, setFavorite or setSkipConfig
\* of (U, K, doc) leaves, the get of the same repository for (U, K) returns
\* a value equal to doc.
C1_SetThenGet ==
    /\ (last.op = "setPlayRecord" /\ last.outcome = "ok")
          => getPlayRecord(last.user, last.key) = last.doc
    /\ (last.op = "setFavorite" /\ last.outcome = "ok")
          => getFavorite(last.user, last.key) = last.doc
    /\ (last.op = "setSkipConfig" /\ last.outcome = "ok")
          => getSkipConfig(last.user, last.source, last.id) = last.doc

\* a set of a document with a quote in it has returned, after an earlier call,
\* and its text is the row of the key
C1_Witness ==
    /\ last.op = "setFavorite"
    /\ last.outcome = "ok"
    /\ QUOTE \in {last.doc.t[i] : i \in 1..Len(last.doc.t)}
    /\ nops >= 2
    /\ \E r \in favorites :
          r.username = last.user /\ r.data = JSONstringify(last.doc)

\* C2: in the state deleteUser(U) leaves, getAllPlayRecords(U),
\* getAllFavorites(U), getSearchHistory(U) and getAllSkipConfigs(U) are empty.
C2_DeleteUserCascades ==
    last.op = "deleteUser" =>
        /\ DOMAIN getAllPlayRecords(last.user) = {}
        /\ DOMAIN getAllFavorites(last.user) = {}
        /\ DOMAIN getAllSkipConfigs(last.user) = {}
        /\ \A tb \in TieBreaks : Len(getSearchHistory(last.user, tb)) = 0

\* a user who owned three rows has been deleted
C2_Witness ==
    /\ last.op = "deleteUser"
    /\ last.owned >= 3
    /\ ~UserExists(last.user)

\* C6: a registerUser for a username that has a row fails with the primary-key
\* constraint error and leaves the users table, and so the stored password,
\* role and banned flag of that user, as it was.
C6_SecondRegisterFails ==
    [][(last'.op = "registerUser" /\ UserExists(last'.user))
          => (last'.outcome = "SQLITE_CONSTRAINT_PRIMARYKEY" /\ users' = users)
      ]_vars

\* u1, registered before, is registered again with another password
C6_Witness ==
    /\ last.op = "registerUser"
    /\ last.user = "u1"
    /\ last.outcome = "SQLITE_CONSTRAINT_PRIMARYKEY"
    /\ UserExists("u1")
    /\ UserRow("u1").password # last.password

\* C7: verifyUser(U, p) is true exactly when U has a row whose password is p:
\* after a successful registerUser(U, p), and after changePassword(U, q) of an
\* existing U, it is true for that password and false for every other one,
\* and it is false for a user without a row.
C7_VerifyUser ==
    /\ \A u \in UserNames, p \in Passwords :
          verifyUser(u, p) <=>
             \E r \in users : r.username = u /\ r.password = p
    /\ (last.op = "registerUser" /\ last.outcome = "ok")
          => \A p \in Passwords :
                verifyUser(last.user, p) <=> p = last.password
    /\ (last.op = "changePassword" /\ UserExists(last.user))
          => \A p \in Passwords :
                verifyUser(last.user, p) <=> p = last.password
    /\ last.op = "deleteUser"
          => \A p \in Passwords : ~verifyUser(last.user, p)

\* the seed owner has changed the bootstrap password
C7_Witness ==
    /\ last.op = "changePassword"
    /\ last.user = ADMIN_USERNAME
    /\ last.password # ADMIN_PASSWORD
    /\ verifyUser(ADMIN_USERNAME, last.password)
    /\ ~verifyUser(ADMIN_USERNAME, ADMIN_PASSWORD)

\* C10: a setSkipConfig(U, s, e, cfg) changes what getSkipConfig(U, s', e')
\* returns for no pair (s', e') other than (s, e).
C10_OnlyItsOwnPair ==
    [][\A u \in UserNames :
          (last'.op = "setSkipConfig" /\ last'.outcome = "ok" /\ last'.user = u)
             => \A se \in SkipPairs :
                   se # <<last'.source, last'.id>>
                      => getSkipConfig(u, se[1], se[2])'
                            = getSkipConfig(u, se[1], se[2])
      ]_vars

\* C4: an addSearchHistory(U, k) of a keyword that U's history holds does not
\* increase the number of U's rows and makes k the first element of
\* getSearchHistory(U).
C4_ReAddMovesToFront ==
    [][\A u \in UserNames, k \in Keywords :
          (/\ last'.op = "addSearchHistory"
           /\ last'.outcome = "ok"
           /\ last'.user = u
           /\ last'.keyword = k
           /\ \E r \in search_history : r.username = u /\ r.keyword = k)
             => /\ Cardinality({r \in search_history' : r.username = u})
                     <= Cardinality({r \in search_history : r.username = u})
                /\ \A tb \in TieBreaks : getSearchHistory(u, tb)'[1] = k
      ]_vars

----------------------------------------------------------------------------
(* Claims about the search history *)

HistoryOf(u) == {r \in search_history : r.username = u}

\* C3: once NumKeywords (25) distinct keywords have been added one after the
\* other, the user has exactly SEARCH_HISTORY_LIMIT (20) rows, they hold the
\* 20 keywords added last, and getSearchHistory returns them newest first,
\* also when adds fall into the same second.
C3_TwentyNewestFirst ==
    nextId = NumKeywords + 1 =>
        /\ Cardinality(HistoryOf(ADMIN_USERNAME)) = SEARCH_HISTORY_LIMIT
        /\ {r.keyword : r \in HistoryOf(ADMIN_USERNAME)}
              = (NumKeywords - SEARCH_HISTORY_LIMIT + 1)..NumKeywords
        /\ \A tb \in TieBreaks :
              getSearchHistory(ADMIN_USERNAME, tb)
                 = [i \in 1..SEARCH_HISTORY_LIMIT |-> NumKeywords + 1 - i]

\* C5: every user has at most SEARCH_HISTORY_LIMIT (20) search-history rows
\* and no two rows of one user hold the same keyword.
C5_AtMostTwentyDistinct ==
    \A u \in UserNames :
        /\ Cardinality(HistoryOf(u)) <= SEARCH_HISTORY_LIMIT
        /\ \A r, q \in HistoryOf(u) : r.keyword = q.keyword => r = q

\* a keyword has been added again after the trim has removed a row
C5_Witness ==
    /\ last.op = "addSearchHistory"
    /\ last.keyword \in ReAddKeywords
    /\ nextId > SEARCH_HISTORY_LIMIT + 2
    /\ Cardinality(HistoryOf(ADMIN_USERNAME)) = SEARCH_HISTORY_LIMIT

----------------------------------------------------------------------------
(* Claims about the retry wrapper *)

\* C9 as stated: no concurrent setFavorite call of an existing user fails,
\* whatever lock errors its attempts meet.
C9_AllSucceed ==
    \A c \in DOMAIN calls :
        UserExists(calls[c].user) => calls[c].pc # "thrown"

\* C9, amended: a concurrent setFavorite call of an existing user fails only
\* when its third attempt, like the two before, met a lock error; a call that
\* has returned has its document stored under its key, and when all calls
\* have returned getAllFavorites holds every key with the document written.
C9_SucceedUnlessThreeBusy ==
    /\ \A c \in DOMAIN calls :
          UserExists(calls[c].user) =>
             /\ calls[c].pc = "thrown" =>
                   (calls[c].i = maxRetries - 1 /\ isLockError(calls[c].err))
             /\ calls[c].pc = "returned" =>
                   getFavorite(calls[c].user, CallKey(c)) = CallDoc(c)
    /\ \A u \in UserNames :
          (/\ DOMAIN calls # {}
           /\ \A c \in DOMAIN calls :
                 calls[c].user = u /\ calls[c].pc = "returned")
             => getAllFavorites(u) = [c \in DOMAIN calls |-> CallDoc(c)]

\* all calls are of one user and have returned, one of them on its third
\* attempt
C9_Witness ==
    /\ DOMAIN calls = 1..NumCalls
    /\ \A c \in DOMAIN calls :
          calls[c].user = ADMIN_USERNAME /\ calls[c].pc = "returned"
    /\ \E c \in DOMAIN calls : calls[c].i = maxRetries - 1
    /\ DOMAIN getAllFavorites(ADMIN_USERNAME) = 1..NumCalls


----------------------------------------------------------------------------
(* The admin config read back *)

\* the list and the set of objects read from a table hold the same objects,
\* each as often (a table holds no object twice)
SameMultiset(list, set) ==
    /\ Len(list) = Cardinality(set)
    /\ {list[i] : i \in 1..Len(list)} = set

\* what was written is what getAdminConfig returns, part by part
RoundTrip(config, got) ==
    /\ got # null
    /\ got.ConfigFile = config.ConfigFile
    /\ config.ConfigSubscribtion # Absent
         => got.ConfigSubscribtion = config.ConfigSubscribtion[1]
    /\ config.SiteConfig # Absent => got.SiteConfig = config.SiteConfig[1]
    /\ SameMultiset(config.UserConfig.Users, got.UserConfig.Users)
    /\ config.UserConfig.Tags # Absent
         => SameMultiset(config.UserConfig.Tags[1], got.UserConfig.Tags)
    /\ SameMultiset(config.SourceConfig, got.SourceConfig)
    /\ SameMultiset(config.CustomCategories, got.CustomCategories)
    /\ config.LiveConfig # Absent
         => SameMultiset(config.LiveConfig[1], got.LiveConfig)

\* C8: right after setAdminConfig(cfg), from whatever state the store was in,
\* getAdminConfig returns cfg's site settings, config file and subscription
\* exactly and cfg's users, tags, sources, live sources and categories as
\* multisets.
C8_RoundTrip ==
    last.op = "setAdminConfig" => RoundTrip(last.config[1], getAdminConfig)

\* the round trip does hold for some write: the full config written to a
\* store where both its users are registered and no other rows exist
C8_SomeRoundTrip ==
    /\ last.op = "setAdminConfig"
    /\ last.config[1] = FullConfig
    /\ RoundTrip(FullConfig, getAdminConfig)


----------------------------------------------------------------------------
(* The attempts of withRetry *)

\* the error of a call is one of the two contention errors
Contention(err) == err \in {BusyError, LockedError}

C12_OtherErrorsPropagate ==
    [][\A c \in DOMAIN calls :
          /\ (/\ calls[c].pc = "try"
              /\ calls'[c] # calls[c]
              /\ ~UserExists(calls[c].user)
              /\ ~Contention(calls'[c].err)) =>
                /\ calls'[c].pc = "thrown"
                /\ calls'[c].err = ForeignKeyError
          /\ (calls[c].pc = "try" /\ calls'[c].err = ForeignKeyError) =>
                calls'[c].pc = "thrown"
          /\ (calls[c].pc = "thrown" /\ calls[c].err = ForeignKeyError) =>
                calls'[c] = calls[c]
      ]_vars

\* a call has raised the foreign-key error of its second attempt, the first
\* having met a contention error
C12_Witness ==
    \E c \in DOMAIN calls :
        /\ calls[c].pc = "thrown"
        /\ calls[c].err = ForeignKeyError
        /\ calls[c].invoked = 2
        /\ calls[c].delay = 100


----------------------------------------------------------------------------
(* Opening the store *)

\* C13: in one process the store is opened once however many SqliteStorage
\* objects are constructed: every object holds the same handle, and a
\* construction after the first runs no pragma, no schema creation and no
\* seeding.
C13_OpenedOncePerProcess ==
    /\ opened <= 1
    /\ \A i \in 1..Len(storages) : storages[i] = storages[1]
    /\ Len(storages) >= 1 => (opened = 1 /\ global_db = storages[1])
    /\ Len(storages) >= 2 => steps = <<>>

\* a third object has been constructed in a process that followed another
C13_Witness ==
    /\ Len(storages) = 3
    /\ last.op = "new SqliteStorage"
    /\ seeded = 1
    /\ nops >= 5

\* the order of the steps of an open
StepOrder ==
    <<MKDIR, NEW_DATABASE, PRAGMA_WAL, PRAGMA_FOREIGN_KEYS, CREATE_TABLES,
      CREATE_INDEXES, INSERT_OWNER>>

Position(step) == CHOOSE i \in 1..Len(StepOrder) : StepOrder[i] = step

\* C14: the open that finds no store file creates the directory if it is
\* missing, creates the store, sets write-ahead mode and foreign keys, creates
\* tables and indexes and inserts the owner, in this order; the owner is
\* inserted once in the life of the store, and an open of an existing file
\* creates no table and inserts no user.
C14_FirstOpenSeedsOnce ==
    [][/\ \A i, j \in 1..Len(steps') :
             i < j => Position(steps'[i]) < Position(steps'[j])
       /\ (~fileExists /\ fileExists') =>
             /\ steps' = (IF dirExists THEN <<>> ELSE <<MKDIR>>)
                         \o SubSeq(StepOrder, 2, Len(StepOrder))
             /\ users' = {OwnerRow}
             /\ seeded' = 1
       /\ fileExists =>
             /\ seeded' = 1
             /\ last'.op = "new SqliteStorage" =>
                   /\ users' = users
                   /\ \A i \in 1..Len(steps') :
                         steps'[i] \in {NEW_DATABASE, PRAGMA_WAL,
                                        PRAGMA_FOREIGN_KEYS}
      ]_vars

\* a later process has opened the existing store after the owner was deleted
C14_Witness ==
    /\ last.op = "new SqliteStorage"
    /\ steps = <<NEW_DATABASE, PRAGMA_WAL, PRAGMA_FOREIGN_KEYS>>
    /\ users = {}
    /\ seeded = 1


----------------------------------------------------------------------------
(* One row per user and key *)

OneRowPerKey(table) ==
    \A r1, r2 \in table :
        (r1.username = r2.username /\ r1.key = r2.key) => r1 = r2

KeysOf(table, u) == {r.key : r \in {q \in table : q.username = u}}

\* the set(u, k, doc) that took the table from old to new: no row is added
\* for an existing key, no other row changes, and the same set once more
\* changes nothing
SetReplaces(old, new, u, k, doc) ==
    /\ KeysOf(new, u) = KeysOf(old, u) \cup {k}
    /\ Cardinality(new) =
          Cardinality(old) + (IF k \in KeysOf(old, u) THEN 0 ELSE 1)
    /\ DeleteRow(new, u, k) = DeleteRow(old, u, k)
    /\ Upsert(new, u, k, doc).rows = new

\* the delete(u, k) that took the table from old to new
DeleteRemoves(old, new, u, k) ==
    /\ KeysOf(new, u) = KeysOf(old, u) \ {k}
    /\ DeleteRow(new, u, k) = DeleteRow(old, u, k)

\* getAll(u) has one entry for each key of a row of u, and after a set that
\* returned the entry of its key is the document set
OneEntryPerKey ==
    /\ OneRowPerKey(play_records)
    /\ OneRowPerKey(favorites)
    /\ OneRowPerKey(skip_configs)
    /\ \A u \in UserNames :
          /\ DOMAIN getAllPlayRecords(u) = KeysOf(play_records, u)
          /\ DOMAIN getAllFavorites(u) = KeysOf(favorites, u)
          /\ DOMAIN getAllSkipConfigs(u) = KeysOf(skip_configs, u)
    /\ last.outcome = "ok" =>
          /\ last.op = "setPlayRecord" =>
                getAllPlayRecords(last.user)[last.key] = last.doc
          /\ last.op = "setFavorite" =>
                getAllFavorites(last.user)[last.key] = last.doc
          /\ last.op = "setSkipConfig" =>
                getAllSkipConfigs(last.user)[skipConfigKey(last.source,
                                                           last.id)] = last.doc

\* each call changes the keys of a user by its own key only
KeysFollowCalls ==
    \A u \in UserNames :
        /\ \A k \in RecordKeys :
              /\ (last'.op = "setPlayRecord" /\ last'.outcome = "ok"
                  /\ last'.user = u /\ last'.key = k) =>
                    SetReplaces(play_records, play_records', u, k, last'.doc)
              /\ (last'.op = "deletePlayRecord"
                  /\ last'.user = u /\ last'.key = k) =>
                    DeleteRemoves(play_records, play_records', u, k)
              /\ (last'.op = "setFavorite" /\ last'.outcome = "ok"
                  /\ last'.user = u /\ last'.key = k) =>
                    SetReplaces(favorites, favorites', u, k, last'.doc)
              /\ (last'.op = "deleteFavorite"
                  /\ last'.user = u /\ last'.key = k) =>
                    DeleteRemoves(favorites, favorites', u, k)
        /\ \A se \in SkipPairs :
              /\ (last'.op = "setSkipConfig" /\ last'.outcome = "ok"
                  /\ last'.user = u
                  /\ last'.source = se[1] /\ last'.id = se[2]) =>
                    SetReplaces(skip_configs, skip_configs', u,
                                skipConfigKey(se[1], se[2]), last'.doc)
              /\ (last'.op = "deleteSkipConfig" /\ last'.user = u
                  /\ last'.source = se[1] /\ last'.id = se[2]) =>
                    DeleteRemoves(skip_configs, skip_configs', u,
                                  skipConfigKey(se[1], se[2]))
        /\ last'.op \notin {"setPlayRecord", "deletePlayRecord",
                            "deleteUser"} =>
              KeysOf(play_records', u) = KeysOf(play_records, u)
        /\ last'.op \notin {"setFavorite", "deleteFavorite", "deleteUser"} =>
              KeysOf(favorites', u) = KeysOf(favorites, u)
        /\ last'.op \notin {"setSkipConfig", "deleteSkipConfig",
                            "deleteUser"} =>
              KeysOf(skip_configs', u) = KeysOf(skip_configs, u)

\* C15: the play-record, favorite and skip-config tables never hold two rows
\* of one (username, key); a set that returns replaces the document of an
\* existing key without adding a row, repeated it leaves the same state, and
\* getAll(U) has one entry for each key set and not deleted since.
C15_OneRowPerUserAndKey == []OneEntryPerKey /\ [][KeysFollowCalls]_vars

\* a user holds two skip configs and one play record, the play record set
\* last, in a run of at least four calls
C15_Witness ==
    /\ last.op = "setPlayRecord"
    /\ last.outcome = "ok"
    /\ Cardinality(DOMAIN getAllSkipConfigs(last.user)) = 2
    /\ DOMAIN getAllPlayRecords(last.user) = {last.key}
    /\ getPlayRecord(last.user, last.key) = last.doc
    /\ nops >= 4


----------------------------------------------------------------------------
(* Gets without a row *)

HasRow(table, u, k) == \E r \in table : r.username = u /\ r.key = k

\* C16: getPlayRecord, getFavorite and getSkipConfig return null, and raise
\* nothing, whenever (U, K) has no row: for a key never set, for a user
\* without a row in users, and right after the delete of (U, K).
C16_AbsentIsNull ==
    /\ \A u \in UserNames :
          /\ \A k \in RecordKeys :
                /\ ~HasRow(play_records, u, k) => getPlayRecord(u, k) = null
                /\ ~HasRow(favorites, u, k) => getFavorite(u, k) = null
                /\ ~UserExists(u) =>
                      (getPlayRecord(u, k) = null /\ getFavorite(u, k) = null)
          /\ \A se \in SkipPairs :
                /\ ~HasRow(skip_configs, u, skipConfigKey(se[1], se[2])) =>
                      getSkipConfig(u, se[1], se[2]) = null
                /\ ~UserExists(u) => getSkipConfig(u, se[1], se[2]) = null
    /\ last.op = "deletePlayRecord" =>
          getPlayRecord(last.user, last.key) = null
    /\ last.op = "deleteFavorite" => getFavorite(last.user, last.key) = null
    /\ last.op = "deleteSkipConfig" =>
          getSkipConfig(last.user, last.source, last.id) = null

\* a favorite has just been deleted while the user's play record of the same
\* key stays, and the other user has no row in users
C16_Witness ==
    /\ last.op = "deleteFavorite"
    /\ UserExists(last.user)
    /\ getFavorite(last.user, last.key) = null
    /\ getPlayRecord(last.user, last.key) # null
    /\ \E u \in UserNames : ~UserExists(u) /\ getFavorite(u, last.key) = null
    /\ nops >= 3


----------------------------------------------------------------------------
(* Transient contention and the public operations *)

\* C17: a call of a public operation, getAdminConfig and setAdminConfig
\* included, whose first attempt or attempts meet a lock error that a later
\* attempt within the three would not meet, is retried and succeeds: the
\* caller never sees the contention error.
C17_ContentionMasked ==
    \A c \in DOMAIN calls :
        calls[c].busy < maxRetries => calls[c].pc \notin {"thrown", "rejected"}


----------------------------------------------------------------------------
(* A write of the admin config that fails *)

\* what the d-th destination of setAdminConfig holds
Destination(d) ==
    CASE d = 1 -> ConfigValue("config_file")
      [] d = 2 -> ConfigValue("config_subscription")
      [] d = 3 -> ConfigValue("site_config")
      [] d = 4 -> users
      [] d = 5 -> user_groups
      [] d = 6 -> api_sources
      [] d = 7 -> categories
      [] d = 8 -> live_sources

\* what the d-th destination holds once its part of config is written
Written(config, d) ==
    CASE d = 1 -> IF config.ConfigFile = <<>> THEN ConfigValue("config_file")
                  ELSE {config.ConfigFile}
      [] d = 2 -> IF config.ConfigSubscribtion = Absent
                  THEN ConfigValue("config_subscription")
                  ELSE {JSONstringify(config.ConfigSubscribtion[1])}
      [] d = 3 -> IF config.SiteConfig = Absent
                  THEN ConfigValue("site_config")
                  ELSE {JSONstringify(config.SiteConfig[1])}
      [] d = 4 -> setAllUsers(users, config.UserConfig.Users)
      [] d = 5 -> IF config.UserConfig.Tags = Absent THEN user_groups
                  ELSE setAllUserGroups(user_groups, config.UserConfig.Tags[1])
      [] d = 6 -> setAllApiSources(api_sources, config.SourceConfig)
      [] d = 7 -> setAllCategories(categories, config.CustomCategories)
      [] d = 8 -> IF config.LiveConfig = Absent THEN live_sources
                  ELSE setAllLiveSources(live_sources, config.LiveConfig[1])

\* C18: when setAdminConfig fails at one of its destinations (config file,
\* subscription, site settings, users, tags, content sources, categories,
\* live sources, in this order), each destination before it holds what the
\* call wrote and each destination after it holds what it held before: nothing
\* is rolled back.
C18_EarlierWritesStay ==
    [][\A config \in Configs, d \in 1..8 :
          (/\ last'.op = "setAdminConfig"
           /\ last'.failedAt = d
           /\ last'.config = Present(config)) =>
             \A e \in 1..8 :
                /\ e < d => Destination(e)' = Written(config, e)
                /\ e > d => Destination(e)' = Destination(e)
      ]_vars

\* the full config failed at its content sources on an empty store: config
\* file, subscription, site settings and tags are stored, no source, category
\* or live source is
C18_Witness ==
    /\ last.op = "setAdminConfig"
    /\ last.failedAt = 6
    /\ last.config = Present(FullConfig)
    /\ ConfigValue("config_file") = {FullConfig.ConfigFile}
    /\ ConfigValue("site_config") # {}
    /\ getAllUserGroups = {GroupA}
    /\ api_sources = {}
    /\ categories = {}
    /\ live_sources = {}


----------------------------------------------------------------------------
(* Fields of the admin config that are not given *)

\* C19: a setAdminConfig whose config file is empty, or whose subscription or
\* site settings are missing, leaves the stored value of that setting as it
\* is, and getAdminConfig returns for it what it returned before.
C19_AbsentFieldsUntouched ==
    [][\A config \in Configs :
          (/\ last'.op = "setAdminConfig"
           /\ last'.outcome = "ok"
           /\ last'.config = Present(config)) =>
             /\ config.ConfigFile = <<>> =>
                   /\ ConfigValue("config_file")' = ConfigValue("config_file")
                   /\ getAdminConfig'.ConfigFile = getAdminConfig.ConfigFile
             /\ config.ConfigSubscribtion = Absent =>
                   /\ ConfigValue("config_subscription")' =
                         ConfigValue("config_subscription")
                   /\ getAdminConfig'.ConfigSubscribtion =
                         getAdminConfig.ConfigSubscribtion
             /\ config.SiteConfig = Absent =>
                   /\ ConfigValue("site_config")' = ConfigValue("site_config")
                   /\ getAdminConfig'.SiteConfig = getAdminConfig.SiteConfig
      ]_vars

\* a config with none of the three settings was written after the full one:
\* getAdminConfig returns the settings of the full one
C19_Witness ==
    /\ last.op = "setAdminConfig"
    /\ last.outcome = "ok"
    /\ last.config = Present(KeepConfig)
    /\ getAdminConfig.ConfigFile = FullConfig.ConfigFile
    /\ getAdminConfig.ConfigSubscribtion = FullConfig.ConfigSubscribtion[1]
    /\ getAdminConfig.SiteConfig = FullConfig.SiteConfig[1]


----------------------------------------------------------------------------
(* The collections of the admin config and the rows of other keys *)

\* the five collections of the result are the contents of their tables
CollectionsFromTables ==
    /\ getAdminConfig # null
    /\ getAdminConfig.UserConfig.Users = getAllUsers(FALSE)
    /\ getAdminConfig.UserConfig.Tags = getAllUserGroups
    /\ getAdminConfig.SourceConfig = getAllApiSources
    /\ getAdminConfig.LiveConfig = getAllLiveSources
    /\ getAdminConfig.CustomCategories = getAllCategories

\* C20: getAdminConfig returns as users, tags, content sources, live sources
\* and categories the contents of their tables, whatever admin_config holds,
\* and a row of admin_config whose key is not config_file,
\* config_subscription or site_config changes nothing in the result.
C20_OtherKeysIgnored ==
    /\ []CollectionsFromTables
    /\ [][last'.op = "otherWriter" => getAdminConfig' = getAdminConfig]_vars

\* rows of other keys that JSON.parse accepts, or whose key getAdminConfig
\* does not know, change nothing
C20_ValidOtherRowsIgnored ==
    (\A r \in admin_config : r.name \in ReplacedKeys => ValidJSON(r.value))
       => CollectionsFromTables

----------------------------------------------------------------------------
(* A store whose subscription descriptor or site settings row was damaged  *)
(* (a write cut short, an edit of the file by hand)                         *)

\* the two keys whose parsed value getAdminConfig keeps
KeptKeys == {"config_subscription", "site_config"}

\* a text JSON.parse accepts and a text it does not
DamagedValues == {JSONstringify(DefaultSiteConfig), <<"{">>}

DamagedNext ==
    \/ \E config \in Configs : Bounded /\ SetAdminConfig(config)
    \/ \E name \in KeptKeys, value \in DamagedValues :
          Bounded /\ OtherWriterPuts(name, value)
    \/ \E u \in UserNames, p \in Passwords : Bounded /\ RegisterUser(u, p)

SpecDamaged == Init /\ [][DamagedNext]_vars

\* a row of one of the kept keys holds a text that JSON.parse rejects
Undecodable(name) ==
    \E r \in admin_config : r.name = name /\ JSONparse(r.value) = SyntaxError

\* C21: when the config_subscription row or the site_config row holds a text
\* that does not decode, getAdminConfig returns no configuration at all
\* (null), whatever the other rows hold.
C21_UndecodableRowFailsAll ==
    (\E name \in KeptKeys : Undecodable(name)) => getAdminConfig = null

\* the site settings do not decode, the subscription descriptor does
C21_Witness ==
    /\ last.op = "otherWriter"
    /\ Undecodable("site_config")
    /\ ConfigValue("config_subscription") # {}
    /\ ~Undecodable("config_subscription")
    /\ getAdminConfig = null

----------------------------------------------------------------------------
(* The five list writers called on their own *)

\* a user entry that leaves the role out
PlainU1 == [AdminU1 EXCEPT !.role = UNDEFINED, !.banned = FALSE, !.tags = <<>>]

UserLists ==
    {<<>>, <<AdminU1>>, <<OwnerAdmin, AdminU1>>, <<AdminU1, PlainU1>>,
     <<[OwnerAdmin EXCEPT !.role = "admin", !.enabledApis = <<"b">>]>>}

GroupB == [name |-> "t2", enabledApis |-> <<>>]

GroupLists ==
    {<<>>, <<GroupA>>, <<GroupB>>,
     <<GroupA, [GroupA EXCEPT !.enabledApis = <<"b">>]>>}

SourceLists ==
    {<<>>, <<SourceA>>, <<SourceB>>, <<SourceA, SourceARenamed>>,
     <<SourceARenamed, SourceB>>}

LiveB == [LiveA EXCEPT !.key = "m", !.channelNumber = Present(4)]

LiveLists ==
    {<<>>, <<LiveA>>, <<LiveB>>, <<LiveA, [LiveA EXCEPT !.disabled = TRUE]>>}

CategoryB == [CategoryA EXCEPT !.type = "tv"]

CategoryLists ==
    {<<>>, <<CategoryA>>, <<CategoryB>>,
     <<CategoryA, [CategoryA EXCEPT !.name = "Q2"]>>}

\* what a list writer does besides its statements
ListDone(op, list) ==
    /\ last' = [Call(op, "") EXCEPT !.config = Present(list)]
    /\ nops' = nops + 1
    /\ UNCHANGED <<play_records, favorites, skip_configs, search_history,
                   admin_config, calls, nextId, now, connection>>

SetAllUsers(list) ==
    /\ users' = setAllUsers(users, list)
    /\ ListDone("setAllUsers", list)
    /\ UNCHANGED <<user_groups, api_sources, live_sources, categories>>

SetAllUserGroups(list) ==
    /\ user_groups' = setAllUserGroups(user_groups, list)
    /\ ListDone("setAllUserGroups", list)
    /\ UNCHANGED <<users, api_sources, live_sources, categories>>

SetAllApiSources(list) ==
    /\ api_sources' = setAllApiSources(api_sources, list)
    /\ ListDone("setAllApiSources", list)
    /\ UNCHANGED <<users, user_groups, live_sources, categories>>

SetAllLiveSources(list) ==
    /\ live_sources' = setAllLiveSources(live_sources, list)
    /\ ListDone("setAllLiveSources", list)
    /\ UNCHANGED <<users, user_groups, api_sources, categories>>

SetAllCategories(list) ==
    /\ categories' = setAllCategories(categories, list)
    /\ ListDone("setAllCategories", list)
    /\ UNCHANGED <<users, user_groups, api_sources, live_sources>>

ListsNext ==
    \/ \E list \in UserLists : Bounded /\ SetAllUsers(list)
    \/ \E list \in GroupLists : Bounded /\ SetAllUserGroups(list)
    \/ \E list \in SourceLists : Bounded /\ SetAllApiSources(list)
    \/ \E list \in LiveLists : Bounded /\ SetAllLiveSources(list)
    \/ \E list \in CategoryLists : Bounded /\ SetAllCategories(list)
    \/ \E u \in UserNames, p \in Passwords : Bounded /\ RegisterUser(u, p)
    \/ \E u \in UserNames, p \in Passwords : Bounded /\ ChangePassword(u, p)

SpecLists == Init /\ [][ListsNext]_vars

\* the list the last call was given
ListGiven == last'.config[1]

\* the entries of the list that no later entry of the same key follows
LastEntries(list, SameKey(_, _)) ==
    {list[i] : i \in {j \in DOMAIN list :
                         \A k \in DOMAIN list : k > j => ~SameKey(list[j], list[k])}}

SameUsername(a, b) == a.username = b.username

\* C22: setAllUsers creates and deletes no row and returns without error;
\* a row whose username is not in the list is unchanged; a row whose
\* username is in the list keeps its password and takes role, banned flag,
\* tags and enabled sources from the list.
C22_SetAllUsersUpdatesOnly ==
    [][last'.op = "setAllUsers" =>
        /\ last'.outcome = "ok"
        /\ {r.username : r \in users'} = {r.username : r \in users}
        /\ \A r \in users :
              \E q \in users' :
                 /\ q.username = r.username
                 /\ q.password = r.password
                 /\ (\A x \in LastEntries(ListGiven, SameUsername) :
                        x.username # r.username) => q = r
                 /\ \A x \in LastEntries(ListGiven, SameUsername) :
                       x.username = r.username =>
                          /\ q.role = IF x.role = UNDEFINED THEN "user"
                                      ELSE x.role
                          /\ q.banned = (IF x.banned THEN 1 ELSE 0)
                          /\ q.tags = JSONstringifyArray(x.tags)
                          /\ q.enabled_apis = JSONstringifyArray(x.enabledApis)
    ]_vars

\* the list named u1, who has no row, and the owner, who was updated
C22_Witness ==
    /\ last.op = "setAllUsers"
    /\ last.config = Present(<<OwnerAdmin, AdminU1>>)
    /\ ~UserExists("u1")
    /\ UserRow(ADMIN_USERNAME).role = "owner"
    /\ UserRow(ADMIN_USERNAME).password = ADMIN_PASSWORD

----------------------------------------------------------------------------
(* The four insert-or-replace list writers *)

SameName(a, b) == a.name = b.name

SameKey(a, b) == a.key = b.key

SameQueryAndType(a, b) == a.query = b.query /\ a.type = b.type

\* the call wrote every entry of its list over the entry of the same key and
\* touched no entry of another key
Additive(before, after, SameEntry(_, _)) ==
    /\ LastEntries(ListGiven, SameEntry) \subseteq after
    /\ \A x \in after :
          x \in LastEntries(ListGiven, SameEntry) \/ x \in before
    /\ \A x \in before :
          \/ x \in after
          \/ \E y \in LastEntries(ListGiven, SameEntry) : SameEntry(x, y)
    /\ \A x \in after, y \in after : SameEntry(x, y) => x = y

\* C26: setAllUserGroups, setAllApiSources, setAllLiveSources and
\* setAllCategories store each entry of their list under its key, over the
\* entry that key had, and remove or change no entry of a key that is not in
\* the list: the keys stored after the call are those stored before it and
\* those of the list.
C26_ListWritersAdditive ==
    [][/\ last'.op = "setAllUserGroups" =>
             Additive(getAllUserGroups, getAllUserGroups', SameName)
       /\ last'.op = "setAllApiSources" =>
             Additive(getAllApiSources, getAllApiSources', SameKey)
       /\ last'.op = "setAllLiveSources" =>
             Additive(getAllLiveSources, getAllLiveSources', SameKey)
       /\ last'.op = "setAllCategories" =>
             Additive(getAllCategories, getAllCategories', SameQueryAndType)
       /\ last'.op \in {"setAllUsers", "registerUser", "changePassword"} =>
             UNCHANGED <<user_groups, api_sources, live_sources, categories>>
    ]_vars

\* a call that names source a again keeps source b, written by an earlier
\* call, and replaces a
C26_Witness ==
    /\ last.op = "setAllApiSources"
    /\ last.config = Present(<<SourceA, SourceARenamed>>)
    /\ getAllApiSources = {SourceARenamed, SourceB}
    /\ getAllUserGroups # {}

----------------------------------------------------------------------------
(* Two processes that share the store file call addSearchHistory for the   *)
(* same user; each statement commits on its own, so the statements of the  *)
(* two calls interleave                                                     *)

Processes == {"p1", "p2"}

\* a keyword the history holds once it is filled, and one it does not hold
InterleavedKeywords == {1, NumKeywords + 1}

\* what a statement of the call of process p does besides its effect on the
\* table; the call goes on at statement pc
Statement(p, name, pc) ==
    /\ calls' = [calls EXCEPT ![p].pc = pc]
    /\ last' = [Call(name, calls[p].user) EXCEPT !.keyword = calls[p].keyword]
    /\ nops' = nops + 1
    /\ UNCHANGED <<users, play_records, favorites, skip_configs, adminTables,
                   now, connection>>

\* deleteStmt.run(userName, String(keyword))
DeleteStatement(p) ==
    /\ calls[p].pc = "delete"
    /\ search_history' =
          {r \in search_history :
              ~(r.username = calls[p].user /\ r.keyword = calls[p].keyword)}
    /\ nextId' = nextId
    /\ Statement(p, "deleteStmt", "insert")

\* insertStmt.run(userName, String(keyword))
InsertStatement(p) ==
    /\ calls[p].pc = "insert"
    /\ IF ForeignKeyOk(calls[p].user)
       THEN /\ search_history' = search_history \cup
                  {[id |-> nextId, username |-> calls[p].user,
                    keyword |-> calls[p].keyword, created_at |-> now]}
            /\ nextId' = nextId + 1
            /\ Statement(p, "insertStmt", "trim")
       ELSE /\ UNCHANGED <<search_history, nextId>>
            /\ Statement(p, "insertStmt", "done")

\* limitStmt.run(userName, userName, SEARCH_HISTORY_LIMIT)
LimitStatement(p) ==
    /\ calls[p].pc = "trim"
    /\ \E keep \in TopSets({r \in search_history :
                               r.username = calls[p].user},
                           SEARCH_HISTORY_LIMIT) :
          search_history' = Trim(search_history, calls[p].user, keep)
    /\ nextId' = nextId
    /\ Statement(p, "limitStmt", "done")

\* the user's earlier calls, one at a time
InterleavedFill ==
    /\ ~HistFilled
    /\ AddSearchHistory(ADMIN_USERNAME, nextId)

InterleavedTick ==
    /\ now < HistSeconds
    /\ Tick

InterleavedInit ==
    /\ FirstOpen
    /\ calls \in [Processes ->
                    {[user |-> ADMIN_USERNAME, keyword |-> k, pc |-> "delete"] :
                        k \in InterleavedKeywords}]

InterleavedNext ==
    \/ InterleavedFill
    \/ InterleavedTick
    \/ \E p \in Processes : HistFilled /\ DeleteStatement(p)
    \/ \E p \in Processes : HistFilled /\ InsertStatement(p)
    \/ \E p \in Processes : HistFilled /\ LimitStatement(p)

SpecInterleaved == InterleavedInit /\ [][InterleavedNext]_vars

\* both calls have run their last statement
BothFinished == \A p \in Processes : calls[p].pc = "done"

\* C23: while and after two addSearchHistory calls for the same user
\* interleave statement by statement, no keyword is twice in the user's
\* history, and once both calls have finished the history has at most 20
\* rows.
C23_InterleavedAddsStayDistinct ==
    /\ \A r \in search_history, q \in search_history :
          r.username = q.username /\ r.keyword = q.keyword => r = q
    /\ BothFinished =>
          Cardinality(HistoryOf(ADMIN_USERNAME)) <= SEARCH_HISTORY_LIMIT

\* the part that holds: each call ends with its trim, so the call that ends
\* last leaves at most 20 rows
C23_AtMostTwentyWhenFinished ==
    BothFinished =>
       Cardinality(HistoryOf(ADMIN_USERNAME)) <= SEARCH_HISTORY_LIMIT

----------------------------------------------------------------------------
(* Referential integrity of the four per-user tables *)

\* the rows of the four per-user tables, as their usernames
OwnersOfRows ==
    {r.username : r \in play_records} \cup {r.username : r \in favorites}
    \cup {r.username : r \in skip_configs}
    \cup {r.username : r \in search_history}

\* the calls that insert into a per-user table
InsertingOps ==
    {"setPlayRecord", "setFavorite", "setSkipConfig", "addSearchHistory"}

\* C24: in every state each row of play_records, favorites, search_history
\* and skip_configs has a username that has a row in users; a set or add for
\* a username without a row in users ends with the foreign-key constraint
\* error (and only then), which the catch block of withRetry throws on at
\* whatever attempt it meets it, and leaves no row of that username.
C24_RowsBelongToUsers ==
    /\ \A u \in OwnersOfRows : UserExists(u)
    /\ last.op \in InsertingOps =>
          /\ (last.outcome = "SQLITE_CONSTRAINT_FOREIGNKEY")
                <=> ~UserExists(last.user)
          /\ ~UserExists(last.user) => last.user \notin OwnersOfRows
          /\ last.outcome = ForeignKeyError.code =>
                \A i \in 0..(maxRetries - 1) :
                   Catch(i, ForeignKeyError) = "thrown"

\* an add for u1, who has no row, has failed while the owner has rows
C24_Witness ==
    /\ last.op = "addSearchHistory"
    /\ last.user = "u1"
    /\ last.outcome = "SQLITE_CONSTRAINT_FOREIGNKEY"
    /\ ~UserExists("u1")
    /\ ADMIN_USERNAME \in OwnersOfRows

----------------------------------------------------------------------------
(* clearAllData after the admin wrote configs and users stored rows *)

\* ON DELETE CASCADE under DELETE FROM users: the rows of a child table left
CascadeAll(table) ==
    IF foreign_keys
    THEN {r \in table : \A q \in users : r.username # q.username}
    ELSE table

\* db.exec(`DELETE FROM users; DELETE FROM admin_config;`)
ClearAllData ==
    /\ users' = {}
    /\ play_records' = CascadeAll(play_records)
    /\ favorites' = CascadeAll(favorites)
    /\ skip_configs' = CascadeAll(skip_configs)
    /\ search_history' = CascadeAll(search_history)
    /\ admin_config' = {}
    /\ last' = Call("clearAllData", "")
    /\ nops' = nops + 1
    /\ UNCHANGED <<user_groups, api_sources, live_sources, categories, calls,
                   nextId, now, connection>>

ClearNext ==
    \/ \E config \in Configs : Bounded /\ SetAdminConfig(config)
    \/ \E u \in UserNames, p \in Passwords : Bounded /\ RegisterUser(u, p)
    \/ \E u \in UserNames, k \in RecordKeys, d \in Docs :
          Bounded /\ SetFavorite(u, k, d)
    \/ \E u \in UserNames, k \in Keywords : Bounded /\ AddSearchHistory(u, k)
    \/ Bounded /\ ClearAllData

SpecClear == Init /\ [][ClearNext]_vars

\* C25: in the state clearAllData leaves, the ten tables are empty: users,
\* play_records, favorites, search_history, skip_configs, admin_config,
\* user_groups, api_sources, live_sources and categories.
C25_ClearAllDataEmptiesAll ==
    last.op = "clearAllData" =>
        /\ users = {}
        /\ play_records = {}
        /\ favorites = {}
        /\ search_history = {}
        /\ skip_configs = {}
        /\ admin_config = {}
        /\ user_groups = {}
        /\ api_sources = {}
        /\ live_sources = {}
        /\ categories = {}

\* the part that holds: the two tables of the statement and the four tables
\* that cascade from users
C25_UsersAndSettingsEmptied ==
    last.op = "clearAllData" =>
        /\ users = {}
        /\ play_records = {}
        /\ favorites = {}
        /\ search_history = {}
        /\ skip_configs = {}
        /\ admin_config = {}

----------------------------------------------------------------------------
(* Two users on one store, after the owner has searched HistFill keywords, *)
(* one a second                                                             *)

\* the keywords of the fill are not those the calls add afterwards
FillKeyword == nextId + Cardinality(Keywords)

IsolationFill ==
    /\ ~HistFilled
    /\ now = nextId
    /\ AddSearchHistory(ADMIN_USERNAME, FillKeyword)

IsolationTick ==
    /\ ~HistFilled
    /\ now < nextId
    /\ Tick

\* a run is cut MaxOps steps after the fill and its seconds
IsolationBounded == HistFilled /\ nops < 2 * HistFill + MaxOps

IsolationNext ==
    \/ IsolationFill
    \/ IsolationTick
    \/ \E u \in UserNames, p \in Passwords :
          IsolationBounded /\ RegisterUser(u, p)
    \/ \E u \in UserNames : IsolationBounded /\ DeleteUser(u)
    \/ \E u \in UserNames, k \in RecordKeys, d \in Docs :
          IsolationBounded /\ SetPlayRecord(u, k, d)
    \/ \E u \in UserNames, k \in RecordKeys :
          IsolationBounded /\ DeletePlayRecord(u, k)
    \/ \E u \in UserNames, k \in RecordKeys, d \in Docs :
          IsolationBounded /\ SetFavorite(u, k, d)
    \/ \E u \in UserNames, k \in RecordKeys :
          IsolationBounded /\ DeleteFavorite(u, k)
    \/ \E u \in UserNames, se \in SkipPairs, d \in Docs :
          IsolationBounded /\ SetSkipConfig(u, se[1], se[2], d)
    \/ \E u \in UserNames, se \in SkipPairs :
          IsolationBounded /\ DeleteSkipConfig(u, se[1], se[2])
    \/ \E u \in UserNames, k \in Keywords :
          IsolationBounded /\ AddSearchHistory(u, k)
    \/ \E u \in UserNames, k \in Keywords \cup {NoKeyword} :
          IsolationBounded /\ DeleteSearchHistory(u, k)

SpecIsolation == Init /\ [][IsolationNext]_vars

\* the rows of a per-user table that belong to other users than u
RowsOfOthers(table, u) == {r \in table : r.username # u}

\* the calls made for one user
PerUserOps ==
    {"setPlayRecord", "deletePlayRecord", "setFavorite", "deleteFavorite",
     "setSkipConfig", "deleteSkipConfig", "addSearchHistory",
     "deleteSearchHistory", "deleteUser"}

\* C27: a set, a delete, an addSearchHistory (with its trim), a
\* deleteSearchHistory (of one keyword or of all) and a deleteUser for user U
\* leave the rows of every other user in play_records, favorites,
\* search_history and skip_configs as they were.
C27_OtherUsersUntouched ==
    [][last'.op \in PerUserOps =>
         /\ RowsOfOthers(play_records', last'.user)
               = RowsOfOthers(play_records, last'.user)
         /\ RowsOfOthers(favorites', last'.user)
               = RowsOfOthers(favorites, last'.user)
         /\ RowsOfOthers(search_history', last'.user)
               = RowsOfOthers(search_history, last'.user)
         /\ RowsOfOthers(skip_configs', last'.user)
               = RowsOfOthers(skip_configs, last'.user)
    ]_vars

\* an add of the owner has trimmed the owner's history while u1 has a row
C27_Witness ==
    /\ last.op = "addSearchHistory"
    /\ last.user = ADMIN_USERNAME
    /\ nextId > SEARCH_HISTORY_LIMIT + 2
    /\ Cardinality(HistoryOf(ADMIN_USERNAME)) = SEARCH_HISTORY_LIMIT
    /\ HistoryOf("u1") # {}

----------------------------------------------------------------------------
(* What the lists of users disclose of the stored passwords *)

\* the users table with the passwords of f in place of the stored ones
WithPasswords(table, f) ==
    {[r EXCEPT !.password = f[r.username]] : r \in table}

\* the list of users without passwords is the same on every store that
\* differs from this one in the stored passwords only; the list with
\* passwords holds each user's stored password
PasswordsOnlyWithFlag ==
    /\ \A f \in [UserNames -> Passwords] :
          {UserOfRow(r, FALSE) : r \in WithPasswords(users, f)}
             = getAllUsers(FALSE)
    /\ \A x \in getAllUsers(FALSE) : x.password = UNDEFINED
    /\ getAdminConfig # null
    /\ getAdminConfig.UserConfig.Users = getAllUsers(FALSE)
    /\ \A r \in users :
          \E x \in getAllUsers(TRUE) :
             x.username = r.username /\ x.password = r.password

\* C28: getAllUsers() without the flag and the user list of getAdminConfig()
\* do not depend on the stored passwords: they are the same on two stores
\* that differ only in passwords, such as the store before and after a
\* changePassword; getAllUsers(true) returns each user's stored password.
C28_PasswordsOnlyOnRequest ==
    /\ []PasswordsOnlyWithFlag
    /\ [][last'.op = "changePassword" =>
            /\ getAllUsers(FALSE)' = getAllUsers(FALSE)
            /\ getAdminConfig'.UserConfig.Users
                  = getAdminConfig.UserConfig.Users]_vars

\* the owner's password was changed while u1 has another password
C28_Witness ==
    /\ last.op = "changePassword"
    /\ UserExists("u1")
    /\ UserRow(ADMIN_USERNAME).password # ADMIN_PASSWORD
    /\ UserRow("u1").password # UserRow(ADMIN_USERNAME).password
    /\ \E x \in getAllUsers(TRUE) :
          x.username = "u1" /\ x.password = UserRow("u1").password

============================================================================
